---- MODULE Spec2Model ----
\* InstaT: the collection engine (InstaT/extractor.py), the element helpers
\* (InstaT/utils.py) and the authentication flow (InstaT/login.py).
\*
\* Texts are sequences of one-character strings, so that trimming, splitting,
\* case folding and substring search are computed, not assumed.
EXTENDS Integers, Sequences, FiniteSets, TLC

\* ---------------------------------------------------------------- bounds
\* largest max_refresh_attempts a run is configured with
MaxRefresh == 2
\* largest max_retry_without_new_profiles a run is configured with
MaxRetry == 1
\* largest wall-clock budget (max_duration) a call is given
MaxBudget == 2
\* largest per-round cost, in the time unit of the budget
MaxCost == 2
\* most item elements one lookup returns
MaxVisible == 2

\* ---------------------------------------------------------------- values
\* Python's None, for total_count and max_duration
None == -1

Min(a, b) == IF a < b THEN a ELSE b

Range(s) == {s[i] : i \in 1..Len(s)}

\* ceil(a / b) for a >= 0, b > 0
CeilDiv(a, b) == (a + b - 1) \div b

\* ---------------------------------------------------------------- text
Digits == {"0", "1", "2", "3", "4", "5", "6", "7", "8", "9"}

IsSpace(c) == c \in {" ", "\t", "\n"}

\* str.strip(): leading and trailing whitespace removed
RECURSIVE LStrip(_)
LStrip(s) ==
    IF s = <<>> THEN s
    ELSE IF IsSpace(Head(s)) THEN LStrip(Tail(s)) ELSE s

RECURSIVE RStrip(_)
RStrip(s) ==
    IF s = <<>> THEN s
    ELSE IF IsSpace(s[Len(s)]) THEN RStrip(SubSeq(s, 1, Len(s) - 1)) ELSE s

Strip(s) == RStrip(LStrip(s))

\* str.lower() / str.casefold() on ASCII letters (the only cased characters of
\* the model's texts)
UpperLetters ==
    <<"A", "B", "C", "D", "E", "F", "G", "H", "I", "J", "K", "L", "M",
      "N", "O", "P", "Q", "R", "S", "T", "U", "V", "W", "X", "Y", "Z">>

LowerLetters ==
    <<"a", "b", "c", "d", "e", "f", "g", "h", "i", "j", "k", "l", "m",
      "n", "o", "p", "q", "r", "s", "t", "u", "v", "w", "x", "y", "z">>

LowerChar(c) ==
    IF \E i \in 1..Len(UpperLetters) : UpperLetters[i] = c
    THEN LowerLetters[CHOOSE i \in 1..Len(UpperLetters) : UpperLetters[i] = c]
    ELSE c

Lower(s) == [i \in 1..Len(s) |-> LowerChar(s[i])]

\* str.split(): the maximal runs of non-whitespace characters, in order
RECURSIVE SplitFrom(_, _, _)
SplitFrom(s, cur, acc) ==
    IF s = <<>> THEN (IF cur = <<>> THEN acc ELSE Append(acc, cur))
    ELSE IF IsSpace(Head(s))
         THEN SplitFrom(Tail(s), <<>>, IF cur = <<>> THEN acc ELSE Append(acc, cur))
         ELSE SplitFrom(Tail(s), Append(cur, Head(s)), acc)

Split(s) == SplitFrom(s, <<>>, <<>>)

\* re.sub(r"\s+", "", s): every whitespace character removed
RECURSIVE RemoveChars(_, _)
RemoveChars(s, cs) ==
    IF s = <<>> THEN s
    ELSE IF Head(s) \in cs THEN RemoveChars(Tail(s), cs)
         ELSE <<Head(s)>> \o RemoveChars(Tail(s), cs)

\* int(s) for a non-empty string of decimal digits
DigitVal(c) ==
    CASE c = "0" -> 0 [] c = "1" -> 1 [] c = "2" -> 2 [] c = "3" -> 3
      [] c = "4" -> 4 [] c = "5" -> 5 [] c = "6" -> 6 [] c = "7" -> 7
      [] c = "8" -> 8 [] c = "9" -> 9

RECURSIVE IntOf(_)
IntOf(s) ==
    IF s = <<>> THEN 0
    ELSE 10 * IntOf(SubSeq(s, 1, Len(s) - 1)) + DigitVal(s[Len(s)])

RECURSIVE Pow10(_)
Pow10(n) == IF n = 0 THEN 1 ELSE 10 * Pow10(n - 1)

\* length of the longest prefix of s made of digits
RECURSIVE DigitPrefix(_)
DigitPrefix(s) ==
    IF s = <<>> \/ Head(s) \notin Digits THEN 0 ELSE 1 + DigitPrefix(Tail(s))

Drop(s, n) == SubSeq(s, n + 1, Len(s))

\* needle in haystack (Python's `in` on strings)
Contains(hay, needle) ==
    \E i \in 0..(Len(hay) - Len(needle)) :
        SubSeq(hay, i + 1, i + Len(needle)) = needle

\* ---------------------------------------------------------------- CountParser
Suffixes == {<<"k">>, <<"m">>, <<"m", "i">>, <<"m", "i", "l">>}

\* mutant: "mil" read as a million
MultiplierMilMillion(suffix) ==
    IF suffix = <<"k">> THEN 1000
    ELSE IF suffix \in {<<"m">>, <<"m", "i">>, <<"m", "i", "l">>} THEN 1000000
    ELSE 1

Multiplier(suffix) ==
    IF suffix = <<"k">> THEN 1000
    ELSE IF suffix \in {<<"m">>, <<"m", "i">>} THEN 1000000
    ELSE IF suffix = <<"m", "i", "l">> THEN 1000
    ELSE 1

\* InstaExtractor.parse_count_text: [ok |-> FALSE] stands for ValueError.
\* The pattern (\d+)[\.,]?(\d+)?(k|m|mi|mil)? is matched against the whole text:
\* the first group takes the longest digit prefix, so the second group is
\* non-empty only after a separator.
ParseCountText(text) ==
    IF text = <<>> THEN [ok |-> FALSE, value |-> 0]
    ELSE
      LET txt0 == RemoveChars(Lower(text), {" ", "\t", "\n"})
          txt == IF ~(\E suffix \in Suffixes : Contains(txt0, suffix))
                 THEN RemoveChars(txt0, {".", ","})
                 ELSE txt0
          n1 == DigitPrefix(txt)
          int_part == SubSeq(txt, 1, n1)
          rest1 == Drop(txt, n1)
          hasSep == rest1 # <<>> /\ Head(rest1) \in {".", ","}
          rest2 == IF hasSep THEN Tail(rest1) ELSE rest1
          n2 == DigitPrefix(rest2)
          decimal_part == SubSeq(rest2, 1, n2)
          suffix == Drop(rest2, n2)
          multiplier == Multiplier(suffix)
      IN IF n1 = 0 \/ suffix \notin (Suffixes \cup {<<>>})
         THEN [ok |-> FALSE, value |-> 0]
         ELSE [ok |-> TRUE,
               value |-> IntOf(int_part) * multiplier
                         + (IF decimal_part # <<>>
                            THEN IntOf(decimal_part)
                                 * (multiplier \div Pow10(Len(decimal_part)))
                            ELSE 0)]

\* ---------------------------------------------------------------- the remote UI
\* Texts the followers/following link can show
LinkTexts ==
    { <<"0">>,
      <<"1", " ", "f">>,
      <<"2">>,
      <<"1", " ", "K">>,
      <<"1", ",", "0", "k", " ", "f">>,
      <<"f">>,
      <<"1", ".", "2", ".", "3", "k">>,
      <<" ">> }

\* Texts an item element (PROFILE_USERNAME_SPAN) can show
RawTexts == { <<>>, <<" ">>, <<"a">>, <<" ", "a", " ">>, <<"b">> }

\* An item element: reading the text of a stale one raises
\* StaleElementReferenceException
Elements ==
    {[text |-> t, stale |-> FALSE] : t \in RawTexts}
        \cup {[text |-> <<>>, stale |-> TRUE]}

\* What one lookup of the item elements can return
Windows == {w \in SUBSET Elements : Cardinality(w) <= MaxVisible}

\* ---------------------------------------------------------------- state
VARIABLES
    pc,                 \* the position of the call in _extract_list / get_profiles
    outcome,            \* "running", "returned" or "raised"
    result,             \* the list _extract_list returned
    max_duration,       \* the budget of the call, or None
    cost,               \* the least time one round takes
    max_refresh_attempts,
    max_retry_without_new_profiles,
    total_count,        \* what _open_list_modal returned
    elapsed,            \* time.perf_counter() - start_time
    unique_profiles,
    refresh_attempts,
    try_count,
    previous_count,
    new_profiles_found,
    usernames,          \* the list get_profiles returned
    wait_ret,           \* what the last wait_for_new_profiles call returned
    wait_snapshot,      \* the last snapshot the running waiter call took
    wait_parity,        \* passes of the waiter's loop that started over, modulo 2
    rounds,             \* rounds started (passes of the budget test)
    scrolls,            \* calls of _perform_dynamic_scroll
    bookkeeps,          \* calls of _handle_profile_count
    refreshes,          \* completed driver.refresh() calls
    stalled,            \* consecutive finished rounds that added no handle
    profile_elements,   \* texts read from the elements of the running extraction pass
    stale_skipped,      \* that pass skipped an element whose text could not be read
    stop_reason,        \* why the loop ended
    trail               \* what _extract_list did to the driver, as flags

config == <<max_duration, cost, max_refresh_attempts, max_retry_without_new_profiles>>
locals == <<unique_profiles, refresh_attempts, try_count, previous_count, new_profiles_found>>
counters == <<rounds, scrolls, bookkeeps, refreshes, stalled>>
waiter == <<wait_ret, wait_snapshot, wait_parity>>
extraction == <<profile_elements, stale_skipped>>
evars == <<pc, outcome, result, config, total_count, elapsed, locals, usernames,
          waiter, counters, extraction, stop_reason, trail>>

\* InstaLogin.login
VARIABLES
    lpc,                \* the position of the call in login()
    login_ret,          \* "running", "True" or "raised"
    error,              \* the exception login() raised, NoError if none
    location,           \* the driver's current URL
    username_field,     \* what has been typed into the username field
    password_field,     \* what has been typed into the password field
    submitted,          \* RETURN was sent to the password field
    steps,              \* the steps login() has executed, in order
    candidates,         \* the controls the fallback enumerated
    clicks,             \* the candidates the fallback clicked, in order
    html,               \* the markup the interstitial check inspected
    page_title,         \* the title it read
    matched,            \* the signature it matched, NoMatch if none
    artifacts,          \* which evidence files were written
    dismissal           \* what the dismissal helper that just ran met and returned

lvars == <<lpc, login_ret, error, location, username_field, password_field,
           submitted, steps, candidates, clicks, html, page_title, matched,
           artifacts, dismissal>>

\* InstaExtractor.parse_count_text, called on its own
VARIABLES
    count_text,         \* the count text handed to the parser
    count_ret           \* what the call gave: NotParsed before it ran

\* SelectorLoader and the code that looks selectors up
VARIABLES
    config_file,        \* what is at config_path
    selectors,          \* SelectorLoader.selectors, Unloaded before __init__
    load_raised,        \* the exception __init__ let escape, "none" if none
    lookup              \* the last lookup: where, which key, what came of it

\* a second call of get_followers / get_following against a simulated UI
VARIABLES
    ui,                 \* FreeUI, or the simulated UI that answers every lookup
    run,                \* 1 in the first call, 2 in the second
    first_result        \* the handles the first call returned

\* Utils.find_element_safe and Utils.find_elements_safe, called on their own
VARIABLES
    find_call,          \* which of the two runs, and its max_retries
    issued,             \* what each driver lookup of the call gave, in order
    find_ret            \* what the call gave back, NotReturned while it runs

\* Utils.parallel_find_elements
VARIABLES
    ppc,                \* the position of the calling thread in the function
    retries,            \* how many lookups the call submits
    futures,            \* the submitted lookups: state and result of each
    yielded,            \* the lookups as_completed has handed over, in order
    results             \* the list the function builds

\* the browser session behind InstaLogin.driver / InstaExtractor.driver
VARIABLES
    driver_session      \* "open", or "quit" once driver.quit() has run

hvars == <<find_call, issued, find_ret, ppc, retries, futures, yielded, results,
           driver_session>>

xvars == <<count_text, count_ret, config_file, selectors, load_raised, lookup,
           ui, run, first_result, hvars>>

vars == <<evars, lvars, xvars>>

NotParsed == [ok |-> FALSE, value |-> None]

\* no waiter call is running
NoSnapshot == [stale |-> FALSE, texts |-> {}, taken |-> FALSE]

NoCall == [fn |-> "none", max_retries |-> 0]

NotReturned == [kind |-> "running", elems |-> <<>>]

\* neither element helper runs on its own, and the session is open
HelpersIdle ==
    /\ find_call = NoCall
    /\ issued = <<>>
    /\ find_ret = NotReturned
    /\ ppc = "idle"
    /\ retries = 0
    /\ futures = <<>>
    /\ yielded = <<>>
    /\ results = <<>>
    /\ driver_session = "open"

\* no parser call of its own is running
ParserIdle ==
    /\ count_text = <<>>
    /\ count_ret = NotParsed

\* the UI answers as it likes, faults included
FreeUI == [kind |-> "free", link |-> <<>>, window |-> {}]

\* a single call against a UI that is not simulated
SingleCall ==
    /\ ui = FreeUI
    /\ run = 1
    /\ first_result = {}

NoFile == [kind |-> "missing", content |-> <<>>]

Unloaded == [kind |-> "unloaded", map |-> <<>>]

NoLookup == [fn |-> "none", key |-> "none", raised |-> "none", value |-> "none",
             outcome |-> "none"]

\* no selector loader is under construction
LoaderIdle ==
    /\ config_file = NoFile
    /\ selectors = Unloaded
    /\ load_raised = "none"
    /\ lookup = NoLookup

NoError ==
    [kind |-> "none", message |-> "", cause |-> "none", url |-> <<>>,
     page_title |-> <<>>, evidence_path |-> "", screenshot_path |-> ""]

NoMatch == <<>>

NoArtifacts == [dir |-> FALSE, markup |-> FALSE, screenshot |-> FALSE]

\* no dismissal helper has just run
NoDismissal == [fn |-> "none", seen |-> "none", ret |-> FALSE]

\* no login call is running (the session already exists)
LoginIdle ==
    /\ lpc = "idle"
    /\ login_ret = "True"
    /\ error = NoError
    /\ location = <<>>
    /\ username_field = ""
    /\ password_field = ""
    /\ submitted = FALSE
    /\ steps = <<>>
    /\ candidates = <<>>
    /\ clicks = <<>>
    /\ html = <<>>
    /\ page_title = <<>>
    /\ matched = NoMatch
    /\ artifacts = NoArtifacts
    /\ dismissal = NoDismissal

\* The clock is read only to compare it with the budget (and never without
\* one), so elapsed stops growing once it is beyond the budget
TimeCap == IF max_duration = None THEN 0 ELSE max_duration + 1

Advance(t, d) == Min(t + d, TimeCap)

NoTrail ==
    [navigated |-> FALSE, nav_fault |-> FALSE, parse_failed |-> FALSE,
     clicked |-> FALSE, loop_entered |-> FALSE, close_attempted |-> FALSE,
     close_failed |-> FALSE, error |-> "none"]

\* a call of get_followers / get_following on a logged-in extractor
Init ==
    /\ HelpersIdle
    /\ LoginIdle
    /\ SingleCall
    /\ LoaderIdle
    /\ ParserIdle
    /\ pc = "open"
    /\ outcome = "running"
    /\ result = <<>>
    /\ max_duration \in {None} \cup (0..MaxBudget)
    /\ cost \in 1..MaxCost
    /\ max_refresh_attempts \in 0..MaxRefresh
    /\ max_retry_without_new_profiles \in 0..MaxRetry
    /\ total_count = None
    /\ elapsed = 0
    /\ unique_profiles = {}
    /\ refresh_attempts = 0
    /\ try_count = 0
    /\ previous_count = 0
    /\ new_profiles_found = FALSE
    /\ usernames = <<>>
    /\ wait_ret = "none"
    /\ wait_snapshot = NoSnapshot
    /\ wait_parity = 0
    /\ rounds = 0
    /\ scrolls = 0
    /\ bookkeeps = 0
    /\ refreshes = 0
    /\ stalled = 0
    /\ profile_elements = {}
    /\ stale_skipped = FALSE
    /\ stop_reason = "none"
    /\ trail = NoTrail

\* ---------------------------------------------------------------- element helpers
\* default max_retries of find_element_safe and find_elements_safe
DefaultMaxRetries == 3

\* Utils.find_element_safe over the outcomes of its successive
\* driver.find_element calls: "element", "nosuch", "stale" (both retried after a
\* sleep of one second) or "fault" (any other driver fault, which propagates)
RECURSIVE FindElementSafeFrom(_, _, _)
FindElementSafeFrom(lookups, attempt, max_retries) ==
    IF attempt > max_retries THEN [ret |-> "None", attempts |-> max_retries]
    ELSE IF lookups[attempt] = "element" THEN [ret |-> "element", attempts |-> attempt]
    ELSE IF lookups[attempt] \in {"nosuch", "stale"}
         THEN FindElementSafeFrom(lookups, attempt + 1, max_retries)
         ELSE [ret |-> "raise", attempts |-> attempt]

FindElementSafe(lookups, max_retries) == FindElementSafeFrom(lookups, 1, max_retries)

\* InstaExtractor._get_scrollable_body: the element, or None when it is absent
\* or the lookup raised
GetScrollableBody(lookups) ==
    LET r == FindElementSafe(lookups, DefaultMaxRetries)
    IN IF r.ret = "element" THEN "element" ELSE "None"

\* What Utils.find_elements_safe hands back for the item selector: a window of
\* elements (empty when every attempt was empty), or a driver fault other than
\* not-found/detached, which it does not catch
Lookups ==
    {[kind |-> "ok", elems |-> w] : w \in Windows}
        \cup {[kind |-> "fault", elems |-> {}]}

\* the same, asked of the UI at hand: a simulated UI shows its window
LookupsNow ==
    IF ui = FreeUI THEN Lookups ELSE {[kind |-> "ok", elems |-> ui.window]}

\* how the wait for the spinner can end
SpinnersNow == IF ui = FreeUI THEN {"passed", "fault"} ELSE {"passed"}

\* ---------------------------------------------------------------- _open_list_modal
OpenInputs ==
    [nav : {"ok", "fault"}, link : {"ok", "timeout", "fault"},
     text : LinkTexts, click : {"ok", "fault"}]

\* a simulated UI loads, shows its link text and takes the click
OpenInputsNow ==
    IF ui = FreeUI THEN OpenInputs
    ELSE {[nav |-> "ok", link |-> "ok", text |-> ui.link, click |-> "ok"]}

\* what the lookups of the body give, attempt by attempt
BodyLookupsNow ==
    IF ui = FreeUI
    THEN [1..DefaultMaxRetries -> {"element", "nosuch", "stale", "fault"}]
    ELSE {[i \in 1..DefaultMaxRetries |-> "element"]}

\* whether driver.refresh() returns
RefreshOutcomesNow == IF ui = FreeUI THEN BOOLEAN ELSE {TRUE}

\* mutant: a count that does not parse is no reason to stop; the link is
\* clicked and the loop runs without a target
ParseAndClickLenient(raw, click) ==
    LET parsed == ParseCountText(raw)
    IN IF click = "fault"
       THEN [total |-> None,
             trail |-> [NoTrail EXCEPT !.navigated = TRUE, !.clicked = TRUE,
                                       !.parse_failed = ~parsed.ok]]
       ELSE [total |-> IF parsed.ok THEN parsed.value ELSE 0,
             trail |-> [NoTrail EXCEPT !.navigated = TRUE, !.clicked = TRUE,
                                       !.parse_failed = ~parsed.ok]]

\* _open_list_modal, lines 183-191: parse the count, then click the link; a
\* ValueError of the parser and a driver fault of the click both end in None
ParseAndClick(raw, click) ==
    LET parsed == ParseCountText(raw)
    IN IF ~parsed.ok
       THEN [total |-> None,
             trail |-> [NoTrail EXCEPT !.navigated = TRUE, !.parse_failed = TRUE]]
       ELSE IF click = "fault"
       THEN [total |-> None,
             trail |-> [NoTrail EXCEPT !.navigated = TRUE, !.clicked = TRUE]]
       ELSE [total |-> parsed.value,
             trail |-> [NoTrail EXCEPT !.navigated = TRUE, !.clicked = TRUE]]

\* _open_list_modal, lines 174-191: wait for the link, read its text, join a
\* split suffix, parse and click. parts[0] of a blank text is an IndexError,
\* which the except clause does not name
LocateAndClick(io) ==
    IF io.link # "ok"
    THEN [total |-> None, trail |-> [NoTrail EXCEPT !.navigated = TRUE]]
    ELSE
      LET parts == Split(io.text)
      IN IF parts = <<>>
         THEN [total |-> None,
               trail |-> [NoTrail EXCEPT !.navigated = TRUE, !.error = "IndexError"]]
         ELSE ParseAndClick(IF Len(parts) > 1 /\ Lower(parts[2]) \in Suffixes
                            THEN parts[1] \o parts[2]
                            ELSE parts[1],
                            io.click)

\* mutant: the navigation fault is not caught as a failure to open
OpenListModalIgnoringNavFault(io) ==
    LET r == LocateAndClick(io)
    IN [r EXCEPT !.trail.nav_fault = (io.nav = "fault")]

\* InstaExtractor._open_list_modal: total is the returned count (None on
\* failure); trail.error is the exception that escapes, if any
OpenListModal(io) ==
    IF io.nav = "fault"
    THEN [total |-> None, trail |-> [NoTrail EXCEPT !.nav_fault = TRUE]]
    ELSE LocateAndClick(io)

\* _extract_list, lines 197-199: open the modal; no count, no collection
OpenStep ==
    /\ pc = "open"
    /\ \E io \in OpenInputsNow :
         LET r == OpenListModal(io)
         IN /\ trail' = r.trail
            /\ total_count' = r.total
            /\ IF r.trail.error # "none"
               THEN /\ pc' = "done"
                    /\ outcome' = "raised"
               ELSE IF r.total = None
               THEN /\ pc' = "done"
                    /\ outcome' = "returned"
               ELSE /\ pc' = "body"
                    /\ outcome' = outcome
    /\ UNCHANGED <<result, config, elapsed, locals, usernames, waiter, counters,
                   extraction, stop_reason>>
    /\ UNCHANGED <<lvars, xvars>>

\* ---------------------------------------------------------------- get_profiles
\* get_profiles, lines 241-247: start the clock, find the scrollable body
BodyStep ==
    /\ pc = "body"
    /\ \E lookups \in BodyLookupsNow :
         LET r == FindElementSafe(lookups, DefaultMaxRetries)
         IN IF GetScrollableBody(lookups) = "element"
            THEN /\ pc' = "top"
                 /\ elapsed' = Advance(0, r.attempts - 1)
                 /\ trail' = [trail EXCEPT !.loop_entered = TRUE]
            ELSE /\ pc' = "close"
                 /\ elapsed' = elapsed
                 /\ trail' = trail
    /\ unique_profiles' = {}
    /\ refresh_attempts' = 0
    /\ try_count' = 0
    /\ previous_count' = 0
    /\ usernames' = <<>>
    /\ UNCHANGED <<outcome, result, config, total_count, new_profiles_found,
                   waiter, counters, extraction, stop_reason>>
    /\ UNCHANGED <<lvars, xvars>>

\* mutant: the budget test allows one more time unit
IsMaxDurationExceededLate(time_elapsed, budget) ==
    IF budget = None THEN FALSE ELSE time_elapsed > budget + 1

\* InstaExtractor._is_max_duration_exceeded
IsMaxDurationExceeded(time_elapsed, budget) ==
    IF budget = None THEN FALSE ELSE time_elapsed > budget

\* get_profiles, lines 249-251: the loop condition and the budget test
TopStep ==
    /\ pc = "top"
    /\ IF ~(refresh_attempts < max_refresh_attempts)
       THEN /\ pc' = "exit"
            /\ stop_reason' = "ceiling"
            /\ rounds' = rounds
       ELSE IF IsMaxDurationExceeded(elapsed, max_duration)
       THEN /\ pc' = "exit"
            /\ stop_reason' = "budget"
            /\ rounds' = rounds
       ELSE /\ pc' = "scroll"
            /\ stop_reason' = stop_reason
            /\ rounds' = rounds + 1
    /\ UNCHANGED <<outcome, result, config, total_count, elapsed, locals, usernames,
                   waiter, scrolls, bookkeeps, refreshes, stalled, extraction, trail>>
    /\ UNCHANGED <<lvars, xvars>>

\* get_profiles, line 253: Utils.dynamic_scroll_element swallows every fault of
\* its scrolling; the round's time passes
ScrollStep ==
    /\ pc = "scroll"
    /\ pc' = "wait"
    /\ scrolls' = scrolls + 1
    /\ elapsed' = Advance(elapsed, cost)
    /\ UNCHANGED <<outcome, result, config, total_count, locals, usernames, waiter,
                   rounds, bookkeeps, refreshes, stalled, extraction, stop_reason, trail>>
    /\ UNCHANGED <<lvars, xvars>>

\* {el.text.strip() for el in elements if el.text.strip()}: the non-empty
\* trimmed texts; "stale" when reading a text raises staleness
Snapshot(elems) ==
    IF \E e \in elems : e.stale THEN [stale |-> TRUE, texts |-> {}]
    ELSE [stale |-> FALSE,
          texts |-> {Strip(e.text) : e \in elems} \ {<<>>}]

\* One pass of the `while True` of Utils.wait_for_new_profiles, lines 129-183,
\* in its two halves:
\*   "True"   new content in the first snapshot, return True
\*   "scroll" nothing new in the first snapshot, scroll and look again
\*   "None"   nothing new after the forced scroll, leave the loop (the function
\*            then ends without a return statement)
\*   "again"  staleness caught, or new content only after the scroll: the
\*            loop starts over
\*   "raise"  a driver fault that is neither a timeout nor staleness
\* spinner is "passed" when the spinner went away or the wait for it timed out
\* (caught), "fault" when the wait raised another driver fault.
WaitFirstHalf(existing, spinner, pre) ==
    IF spinner = "fault" \/ pre.kind = "fault" THEN "raise"
    ELSE IF Snapshot(pre.elems).stale THEN "again"
    ELSE IF ~(Snapshot(pre.elems).texts \subseteq existing) THEN "True"
    ELSE "scroll"

WaitSecondHalf(existing, post) ==
    IF post.kind = "fault" THEN "raise"
    ELSE IF Snapshot(post.elems).stale THEN "again"
    ELSE IF Snapshot(post.elems).texts \subseteq existing THEN "None"
    ELSE "again"

\* the snapshot as the waiter holds it
Taken(elems) ==
    [stale |-> Snapshot(elems).stale, texts |-> Snapshot(elems).texts, taken |-> TRUE]

\* what a half of a pass does to the call, given its outcome w and the
\* elements it looked at
WaitHalf(w, elems) ==
    IF w = "raise"
    THEN /\ pc' = "done"
         /\ outcome' = "raised"
         /\ trail' = [trail EXCEPT !.error = "WebDriverException"]
         /\ UNCHANGED <<waiter, elapsed>>
    ELSE IF w = "again"
    THEN /\ pc' = "wait"
         /\ elapsed' = Advance(elapsed, cost)
         /\ wait_snapshot' = Taken(elems)
         /\ wait_parity' = 1 - wait_parity
         /\ UNCHANGED <<outcome, trail, wait_ret>>
    ELSE IF w = "scroll"
    THEN /\ pc' = "wait_scroll"
         /\ wait_snapshot' = Taken(elems)
         /\ UNCHANGED <<outcome, trail, wait_ret, wait_parity, elapsed>>
    ELSE /\ pc' = "extract"
         /\ wait_ret' = w
         /\ wait_snapshot' = Taken(elems)
         /\ UNCHANGED <<outcome, trail, wait_parity, elapsed>>

\* get_profiles, line 254, utils.py lines 129-147: the wait for the spinner
\* and the snapshot at the start of a pass
WaitStep ==
    /\ pc = "wait"
    /\ \E sp \in SpinnersNow, pre \in LookupsNow :
         WaitHalf(WaitFirstHalf(unique_profiles, sp, pre), pre.elems)
    /\ UNCHANGED <<result, config, total_count, locals, usernames, counters,
                   extraction, stop_reason>>
    /\ UNCHANGED <<lvars, xvars>>

\* utils.py lines 149-180: the forced scroll and the snapshot after it; the
\* value the waiter returns is dropped by _wait_for_new_profiles
WaitScrollStep ==
    /\ pc = "wait_scroll"
    /\ \E post \in LookupsNow :
         WaitHalf(WaitSecondHalf(unique_profiles, post), post.elems)
    /\ UNCHANGED <<result, config, total_count, locals, usernames, counters,
                   extraction, stop_reason>>
    /\ UNCHANGED <<lvars, xvars>>

\* mutant: the pass keeps only what is visible now
ExtractVisibleProfilesReplacing(profiles, elems) ==
    LET names == {Strip(e.text) : e \in {x \in elems : ~x.stale}}
        fresh == {n \in names : n # <<>> /\ n \notin profiles}
    IN [profiles |-> names \ {<<>>}, new_profiles_found |-> fresh # {}]

\* mutant: the pass does not test the trimmed text for emptiness
ExtractVisibleProfilesKeepingEmpty(profiles, elems) ==
    LET names == {Strip(e.text) : e \in {x \in elems : ~x.stale}}
        fresh == {n \in names : n \notin profiles}
    IN [profiles |-> profiles \cup fresh, new_profiles_found |-> fresh # {}]

\* mutant: a detached element ends the pass, as the outer except clause would
ExtractVisibleProfilesStoppingAtStale(profiles, elems) ==
    LET names == IF \E x \in elems : x.stale THEN {}
                 ELSE {Strip(e.text) : e \in elems}
        fresh == {n \in names : n # <<>> /\ n \notin profiles}
    IN [profiles |-> profiles \cup fresh, new_profiles_found |-> fresh # {}]

\* InstaExtractor._extract_visible_profiles: the set after the pass and whether
\* the pass added a handle; a stale element is skipped
ExtractVisibleProfiles(profiles, elems) ==
    LET names == {Strip(e.text) : e \in {x \in elems : ~x.stale}}
        fresh == {n \in names : n # <<>> /\ n \notin profiles}
    IN [profiles |-> profiles \cup fresh, new_profiles_found |-> fresh # {}]

\* get_profiles, line 256; profile_elements is the pass's local list, gone
\* when the pass returns
ExtractStep ==
    /\ pc = "extract"
    /\ \E look \in LookupsNow :
         IF look.kind = "fault"
         THEN /\ pc' = "done"
              /\ outcome' = "raised"
              /\ trail' = [trail EXCEPT !.error = "WebDriverException"]
              /\ UNCHANGED <<unique_profiles, new_profiles_found, extraction>>
         ELSE LET r == ExtractVisibleProfiles(unique_profiles, look.elems)
              IN /\ pc' = "check"
                 /\ unique_profiles' = r.profiles
                 /\ new_profiles_found' = r.new_profiles_found
                 /\ profile_elements' = {e.text : e \in {x \in look.elems : ~x.stale}}
                 /\ stale_skipped' = (\E e \in look.elems : e.stale)
                 /\ UNCHANGED <<outcome, trail>>
    /\ wait_ret' = "none"
    /\ wait_snapshot' = NoSnapshot
    /\ wait_parity' = 0
    /\ UNCHANGED <<result, config, total_count, elapsed, refresh_attempts, try_count,
                   previous_count, usernames, counters, stop_reason>>
    /\ UNCHANGED <<lvars, xvars>>

\* mutant: the target test is strict (> for >=)
ExpectedCountReachedStrict(profiles, expected_count) ==
    Cardinality(profiles) > expected_count

\* get_profiles, line 258
ExpectedCountReached(profiles, expected_count) ==
    Cardinality(profiles) >= expected_count

\* mutant: short of the target the round goes back to waiting, past the
\* bookkeeping and the loop condition
CheckStepSkippingBookkeeping ==
    /\ pc = "check"
    /\ IF ExpectedCountReached(unique_profiles, total_count)
       THEN /\ pc' = "exit"
            /\ stop_reason' = "target"
       ELSE /\ pc' = "wait"
            /\ stop_reason' = stop_reason
    /\ profile_elements' = {}
    /\ stale_skipped' = FALSE
    /\ UNCHANGED <<outcome, result, config, total_count, elapsed, locals, usernames,
                   waiter, counters, trail>>
    /\ UNCHANGED <<lvars, xvars>>

\* mutant: the budget is consulted again after the extraction, and a round
\* that ran over it is cut short of its bookkeeping
CheckStepConsultingBudget ==
    /\ pc = "check"
    /\ IF ExpectedCountReached(unique_profiles, total_count)
       THEN /\ pc' = "exit"
            /\ stop_reason' = "target"
       ELSE IF IsMaxDurationExceeded(elapsed, max_duration)
       THEN /\ pc' = "exit"
            /\ stop_reason' = "budget"
       ELSE /\ pc' = "bookkeep"
            /\ stop_reason' = stop_reason
    /\ profile_elements' = {}
    /\ stale_skipped' = FALSE
    /\ UNCHANGED <<outcome, result, config, total_count, elapsed, locals, usernames,
                   waiter, counters, trail>>
    /\ UNCHANGED <<lvars, xvars>>

\* get_profiles, lines 258-260
CheckStep ==
    /\ pc = "check"
    /\ IF ExpectedCountReached(unique_profiles, total_count)
       THEN /\ pc' = "exit"
            /\ stop_reason' = "target"
       ELSE /\ pc' = "bookkeep"
            /\ stop_reason' = stop_reason
    /\ profile_elements' = {}
    /\ stale_skipped' = FALSE
    /\ UNCHANGED <<outcome, result, config, total_count, elapsed, locals, usernames,
                   waiter, counters, trail>>
    /\ UNCHANGED <<lvars, xvars>>

\* time.sleep(3) after driver.refresh()
RefreshSleep == 3

\* mutant: the refresh comes one stalled round early (>= for >)
HandleProfileCountEarly(found, prev, tries, refreshed, max_retry) ==
    LET current_count == prev + (IF found THEN 1 ELSE 0)
    IN IF current_count > prev
       THEN [refresh_attempts |-> refreshed, try_count |-> 0,
             previous_count |-> current_count, refresh |-> FALSE]
       ELSE IF tries + 1 >= max_retry
       THEN [refresh_attempts |-> refreshed + 1, try_count |-> 0,
             previous_count |-> 0, refresh |-> TRUE]
       ELSE [refresh_attempts |-> refreshed, try_count |-> tries + 1,
             previous_count |-> prev, refresh |-> FALSE]

\* mutant: a round with a new handle leaves the retry counter as it is
HandleProfileCountKeepingTries(found, prev, tries, refreshed, max_retry) ==
    LET current_count == prev + (IF found THEN 1 ELSE 0)
    IN IF current_count > prev
       THEN [refresh_attempts |-> refreshed, try_count |-> tries,
             previous_count |-> current_count, refresh |-> FALSE]
       ELSE IF tries + 1 > max_retry
       THEN [refresh_attempts |-> refreshed + 1, try_count |-> 0,
             previous_count |-> 0, refresh |-> TRUE]
       ELSE [refresh_attempts |-> refreshed, try_count |-> tries + 1,
             previous_count |-> prev, refresh |-> FALSE]

\* InstaExtractor._handle_profile_count: the three returned counters, and
\* whether the call refreshes the page
HandleProfileCount(found, prev, tries, refreshed, max_retry) ==
    LET current_count == prev + (IF found THEN 1 ELSE 0)
    IN IF current_count > prev
       THEN [refresh_attempts |-> refreshed, try_count |-> 0,
             previous_count |-> current_count, refresh |-> FALSE]
       ELSE IF tries + 1 > max_retry
       THEN [refresh_attempts |-> refreshed + 1, try_count |-> 0,
             previous_count |-> 0, refresh |-> TRUE]
       ELSE [refresh_attempts |-> refreshed, try_count |-> tries + 1,
             previous_count |-> prev, refresh |-> FALSE]

\* get_profiles, lines 262-266; new_profiles_found is not read again before
\* the next pass assigns it
BookkeepStep ==
    /\ pc = "bookkeep"
    /\ LET r == HandleProfileCount(new_profiles_found, previous_count, try_count,
                                   refresh_attempts, max_retry_without_new_profiles)
       IN \E refresh_ok \in RefreshOutcomesNow :
            IF r.refresh /\ ~refresh_ok
            THEN /\ pc' = "done"
                 /\ outcome' = "raised"
                 /\ trail' = [trail EXCEPT !.error = "WebDriverException"]
                 /\ bookkeeps' = bookkeeps + 1
                 /\ UNCHANGED <<refresh_attempts, try_count, previous_count, elapsed,
                                refreshes, stalled>>
            ELSE /\ pc' = "top"
                 /\ refresh_attempts' = r.refresh_attempts
                 /\ try_count' = r.try_count
                 /\ previous_count' = r.previous_count
                 /\ bookkeeps' = bookkeeps + 1
                 /\ refreshes' = IF r.refresh THEN refreshes + 1 ELSE refreshes
                 /\ elapsed' = IF r.refresh THEN Advance(elapsed, RefreshSleep)
                               ELSE elapsed
                 /\ stalled' = IF new_profiles_found \/ r.refresh THEN 0
                               ELSE stalled + 1
                 /\ UNCHANGED <<outcome, trail>>
    /\ new_profiles_found' = FALSE
    /\ UNCHANGED <<result, config, total_count, unique_profiles, usernames, waiter,
                   rounds, scrolls, extraction, stop_reason>>
    /\ UNCHANGED <<lvars, xvars>>

\* mutant: the list may repeat a handle and leave another out
ListOfLossy(S) ==
    [1..Cardinality(S) -> S]

\* list(unique_profiles): the elements of the set, each once, in any order
ListOf(S) ==
    {l \in [1..Cardinality(S) -> S] : Range(l) = S}

\* get_profiles, lines 268-270
ExitStep ==
    /\ pc = "exit"
    /\ pc' = "close"
    /\ usernames' \in ListOf(unique_profiles)
    /\ UNCHANGED <<outcome, result, config, total_count, elapsed, locals, waiter,
                   counters, extraction, stop_reason, trail>>
    /\ UNCHANGED <<lvars, xvars>>

\* mutant: a failure to close escapes and the list is lost
CloseModalRaising(names, close) ==
    IF close = "ok" THEN [outcome |-> "returned", result |-> names]
    ELSE [outcome |-> "raised", result |-> <<>>]

\* _extract_list, lines 203-214: the close is best effort; its timeout or
\* driver fault is logged and the collected list is returned all the same
CloseModal(names, close) ==
    [outcome |-> "returned", result |-> names]

CloseStep ==
    /\ pc = "close"
    /\ \E close \in {"ok", "timeout", "fault"} :
         /\ trail' = [trail EXCEPT !.close_attempted = TRUE,
                                   !.close_failed = (close # "ok")]
         /\ outcome' = CloseModal(usernames, close).outcome
         /\ result' = CloseModal(usernames, close).result
    /\ pc' = "done"
    /\ UNCHANGED <<config, total_count, elapsed, locals, usernames, waiter,
                   counters, extraction, stop_reason>>
    /\ UNCHANGED <<lvars, xvars>>

Next ==
    \/ OpenStep
    \/ BodyStep
    \/ TopStep
    \/ ScrollStep
    \/ WaitStep
    \/ WaitScrollStep
    \/ ExtractStep
    \/ CheckStep
    \/ BookkeepStep
    \/ ExitStep
    \/ CloseStep

Spec == Init /\ [][Next]_vars

\* the steps of get_profiles
GetProfilesStep ==
    \/ BodyStep
    \/ TopStep
    \/ ScrollStep
    \/ WaitStep
    \/ WaitScrollStep
    \/ ExtractStep
    \/ CheckStep
    \/ BookkeepStep
    \/ ExitStep

\* get_profiles runs on the caller's thread, which blocks in every wait and
\* is never suspended for good: while the call can take a step, it takes one
SpecLive == Init /\ [][Next]_vars /\ WF_vars(GetProfilesStep)

\* ------------------------------------------------------- two calls, one UI
\* a simulated UI: the link text it shows and the item elements it offers at
\* every lookup; none of them is detached and no driver call faults
FixedUIs ==
    { [kind |-> "fixed", link |-> t, window |-> w] :
        t \in LinkTexts, w \in { v \in Windows : \A e \in v : ~e.stale } }

\* the first of two calls against a simulated UI
InitRerun ==
    /\ HelpersIdle
    /\ LoginIdle
    /\ LoaderIdle
    /\ ParserIdle
    /\ ui \in FixedUIs
    /\ run = 1
    /\ first_result = {}
    /\ pc = "open"
    /\ outcome = "running"
    /\ result = <<>>
    /\ max_duration \in {None} \cup (0..MaxBudget)
    /\ cost \in 1..MaxCost
    /\ max_refresh_attempts \in 0..MaxRefresh
    /\ max_retry_without_new_profiles \in 0..MaxRetry
    /\ total_count = None
    /\ elapsed = 0
    /\ unique_profiles = {}
    /\ refresh_attempts = 0
    /\ try_count = 0
    /\ previous_count = 0
    /\ new_profiles_found = FALSE
    /\ usernames = <<>>
    /\ wait_ret = "none"
    /\ wait_snapshot = NoSnapshot
    /\ wait_parity = 0
    /\ rounds = 0
    /\ scrolls = 0
    /\ bookkeeps = 0
    /\ refreshes = 0
    /\ stalled = 0
    /\ profile_elements = {}
    /\ stale_skipped = FALSE
    /\ stop_reason = "none"
    /\ trail = NoTrail

\* the first call has returned its list; the same method is called again on
\* the same extractor, whose attributes are as they were
RerunStep ==
    /\ pc = "done"
    /\ outcome = "returned"
    /\ run = 1
    /\ ui # FreeUI
    /\ run' = 2
    /\ first_result' = Range(result)
    /\ pc' = "open"
    /\ outcome' = "running"
    /\ result' = <<>>
    /\ total_count' = None
    /\ elapsed' = 0
    /\ unique_profiles' = {}
    /\ refresh_attempts' = 0
    /\ try_count' = 0
    /\ previous_count' = 0
    /\ new_profiles_found' = FALSE
    /\ usernames' = <<>>
    /\ wait_ret' = "none"
    /\ wait_snapshot' = NoSnapshot
    /\ wait_parity' = 0
    /\ rounds' = 0
    /\ scrolls' = 0
    /\ bookkeeps' = 0
    /\ refreshes' = 0
    /\ stalled' = 0
    /\ profile_elements' = {}
    /\ stale_skipped' = FALSE
    /\ stop_reason' = "none"
    /\ trail' = NoTrail
    /\ UNCHANGED <<config, ui, lvars, hvars>>
    /\ UNCHANGED <<count_text, count_ret, config_file, selectors, load_raised, lookup>>

NextRerun ==
    \/ OpenStep
    \/ BodyStep
    \/ TopStep
    \/ ScrollStep
    \/ WaitStep
    \/ WaitScrollStep
    \/ ExtractStep
    \/ CheckStep
    \/ BookkeepStep
    \/ ExitStep
    \/ CloseStep
    \/ RerunStep

SpecRerun == InitRerun /\ [][NextRerun]_vars

\* ================================================================ InstaLogin
LOGIN_URL ==
        <<"h", "t", "t", "p", "s", ":", "/", "/", "w", "w", "w", ".", "i",
          "n", "s", "t", "a", "g", "r", "a", "m", ".", "c", "o", "m", "/",
          "a", "c", "c", "o", "u", "n", "t", "s", "/", "l", "o", "g", "i",
          "n", "/">>

\* where the driver can be after the form was submitted
Urls ==
    { LOGIN_URL,
        <<"h", "t", "t", "p", "s", ":", "/", "/", "w", "w", "w", ".", "i",
          "n", "s", "t", "a", "g", "r", "a", "m", ".", "c", "o", "m", "/">>,
        <<"h", "t", "t", "p", "s", ":", "/", "/", "w", "w", "w", ".", "i",
          "n", "s", "t", "a", "g", "r", "a", "m", ".", "c", "o", "m", "/",
          "m", "e", "t", "a", " ", "v", "e", "r", "i", "f", "i", "e", "d",
          "/">> }

\* driver.title; NoText stands for None
NoText == <<"None">>

Titles ==
    { NoText,
        <<" ", "I", "n", "s", "t", "a", "g", "r", "a", "m", " ">>,
        <<"M", "e", "t", "a", " ", "V", "e", "r", "i", "f", "i", "e", "d">> }

\* driver.page_source; NoText stands for None
Markups ==
    { NoText,
        <<"<", "p", ">", "W", "e", "l", "c", "o", "m", "e", "<", "/", "p",
          ">">>,
        <<"<", "p", ">", "M", "e", "t", "a", " ", "V", "e", "r", "i", "f",
          "i", "e", "d", "<", "/", "p", ">">>,
        <<"M", "E", "T", "A", " ", "V", "E", "R", "I", "F", "I", "E", "D">>,
        <<"<", "p", ">", "M", "e", "t", "a", " ", " ", "V", "e", "r", "i",
          "f", "i", "e", "d", "<", "/", "p", ">">>,
        <<"<", "b", ">", "O", " ", "M", "e", "t", "a", " ", "V", "e", "r",
          "i", "f", "i", "e", "d", " ", "e", "s", "t", "á", " ", "d", "i",
          "s", "p", "o", "n", "í", "v", "e", "l", " ", "p", "a", "r", "a",
          " ", "o", " ", "F", "a", "c", "e", "b", "o", "o", "k", " ", "e",
          " ", "o", " ", "I", "n", "s", "t", "a", "g", "r", "a", "m", "<",
          "/", "b", ">">> }

\* InstaLogin.META_VERIFIED_SIGNATURES, in the order they are tried
META_VERIFIED_SIGNATURES ==
    <<  <<"o", " ", "m", "e", "t", "a", " ", "v", "e", "r", "i", "f", "i",
          "e", "d", " ", "e", "s", "t", "á", " ", "d", "i", "s", "p", "o",
          "n", "í", "v", "e", "l", " ", "p", "a", "r", "a", " ", "o", " ",
          "f", "a", "c", "e", "b", "o", "o", "k", " ", "e", " ", "o", " ",
          "i", "n", "s", "t", "a", "g", "r", "a", "m">>,
        <<"m", "e", "t", "a", " ", "v", "e", "r", "i", "f", "i", "e", "d">> >>

\* InstaLogin.keywords
keywords ==
    {   <<"e", "n", "t", "r", "a", "r">>,
        <<"l", "o", "g", " ", "i", "n">>,
        <<"l", "o", "g", "i", "n">>,
        <<"i", "n", "i", "c", "i", "a", "r", " ", "s", "e", "s", "i", "ó",
          "n">>,
        <<"c", "o", "n", "n", "e", "x", "i", "o", "n">>,
        <<"a", "n", "m", "e", "l", "d", "e", "n">> }

\* the credentials the instance was built with
Username == "user"
Password == "secret"

EvidencePath == "instat/logs/artifacts/meta_interstitial_<ts>.html"
ScreenshotPath == "instat/logs/artifacts/meta_interstitial_<ts>.png"

\* x or "" / x or '' for a value that may be None
OrEmpty(t) == IF t = NoText THEN <<>> ELSE t

\* the first signature of the list the text contains, NoMatch if none
RECURSIVE FirstSignatureFrom(_, _)
FirstSignatureFrom(text, i) ==
    IF i > Len(META_VERIFIED_SIGNATURES) THEN NoMatch
    ELSE IF Contains(text, META_VERIFIED_SIGNATURES[i])
         THEN META_VERIFIED_SIGNATURES[i]
         ELSE FirstSignatureFrom(text, i + 1)

InterstitialMessage ==
    "Login blocked by Meta/Instagram interstitial. Manual action required: verify the account through the registered e-mail."

\* lines 104-111 for every markup the page can have: the first signature
\* found in the casefolded page source, NoMatch if none
SignatureOf == [m \in Markups |-> FirstSignatureFrom(Lower(OrEmpty(m)), 1)]

\* InstaLogin._check_for_meta_interstitial. io holds what the driver and the
\* file system answer: read ("ok", or "fault" when title, URL or markup
\* cannot be read), title, url, source, mkdir, write, shot ("ok" or "fault").
\* error.kind "none" means the check returns.
CheckForMetaInterstitial(io) ==
    IF io.read = "fault"
    THEN [error |-> [NoError EXCEPT !.kind = "WebDriverException"],
          html |-> <<>>, page_title |-> <<>>, matched |-> NoMatch,
          inspected |-> FALSE, artifacts |-> NoArtifacts]
    ELSE
      LET title == Strip(OrEmpty(io.title))
          source == OrEmpty(io.source)
          sig == SignatureOf[io.source]
      IN IF sig = NoMatch
         THEN [error |-> NoError, html |-> source, page_title |-> title,
               matched |-> NoMatch, inspected |-> TRUE, artifacts |-> NoArtifacts]
         ELSE IF io.mkdir = "fault"
         THEN [error |-> [NoError EXCEPT !.kind = "OSError"],
               html |-> source, page_title |-> title, matched |-> sig,
               inspected |-> TRUE, artifacts |-> NoArtifacts]
         ELSE [error |-> [NoError EXCEPT !.kind = "MetaInterstitialError",
                            !.message = InterstitialMessage,
                            !.url = io.url, !.page_title = title,
                            !.evidence_path = EvidencePath,
                            !.screenshot_path = ScreenshotPath],
               html |-> source, page_title |-> title, matched |-> sig,
               inspected |-> TRUE,
               artifacts |-> [dir |-> TRUE, markup |-> io.write = "ok",
                              screenshot |-> io.shot = "ok"]]

\* no extraction call is running
EngineIdle ==
    /\ pc = "idle"
    /\ outcome = "running"
    /\ result = <<>>
    /\ max_duration = None
    /\ cost = 1
    /\ max_refresh_attempts = 0
    /\ max_retry_without_new_profiles = 0
    /\ total_count = None
    /\ elapsed = 0
    /\ unique_profiles = {}
    /\ refresh_attempts = 0
    /\ try_count = 0
    /\ previous_count = 0
    /\ new_profiles_found = FALSE
    /\ usernames = <<>>
    /\ wait_ret = "none"
    /\ wait_snapshot = NoSnapshot
    /\ wait_parity = 0
    /\ rounds = 0
    /\ scrolls = 0
    /\ bookkeeps = 0
    /\ refreshes = 0
    /\ stalled = 0
    /\ profile_elements = {}
    /\ stale_skipped = FALSE
    /\ stop_reason = "none"
    /\ trail = NoTrail

\* InstaLogin.__init__ has built the driver; login() is about to run
InitLogin ==
    /\ HelpersIdle
    /\ EngineIdle
    /\ SingleCall
    /\ LoaderIdle
    /\ ParserIdle
    /\ lpc = "start"
    /\ login_ret = "running"
    /\ error = NoError
    /\ location = <<>>
    /\ username_field = ""
    /\ password_field = ""
    /\ submitted = FALSE
    /\ steps = <<>>
    /\ candidates = <<>>
    /\ clicks = <<>>
    /\ html = <<>>
    /\ page_title = <<>>
    /\ matched = NoMatch
    /\ artifacts = NoArtifacts
    /\ dismissal = NoDismissal

\* mutant: a failure starts the flow again
RaiseAndRetry(e) ==
    /\ lpc' = "start"
    /\ login_ret' = "running"
    /\ error' = e

\* login() raises e
Raise(e) ==
    /\ lpc' = "done"
    /\ login_ret' = "raised"
    /\ error' = e

LoginFailure(msg, cause) ==
    [NoError EXCEPT !.kind = "Exception", !.message = msg, !.cause = cause]

\* login(), lines 157-162
LoginNavigate ==
    /\ lpc = "start"
    /\ steps' = Append(steps, "navigate")
    /\ \E nav \in {"ok", "fault"} :
         IF nav = "fault"
         THEN /\ Raise(LoginFailure("Failed to load Instagram login page.",
                                    "WebDriverException"))
              /\ UNCHANGED location
         ELSE /\ lpc' = "form"
              /\ location' = LOGIN_URL
              /\ UNCHANGED <<login_ret, error>>
    /\ UNCHANGED <<username_field, password_field, submitted, candidates, clicks,
                   html, page_title, matched, artifacts>>
    /\ dismissal' = NoDismissal
    /\ UNCHANGED <<evars, xvars>>

\* mutant: only the wait for the user name field is looked at
WaitForFieldsUsernameOnly(user_wait, pass_wait) ==
    IF user_wait = "visible" THEN NoError
    ELSE IF user_wait = "timeout"
    THEN LoginFailure("Login failed: Timeout waiting for login form elements.",
                      "TimeoutException")
    ELSE LoginFailure("Login failed: WebDriver error during element location.",
                      "WebDriverException")

\* login(), lines 164-174: the two waits, in order; the first that does not
\* find its field decides
WaitForFields(user_wait, pass_wait) ==
    LET first == IF user_wait # "visible" THEN user_wait ELSE pass_wait
    IN IF first = "visible" THEN NoError
       ELSE IF first = "timeout"
       THEN LoginFailure("Login failed: Timeout waiting for login form elements.",
                         "TimeoutException")
       ELSE LoginFailure("Login failed: WebDriver error during element location.",
                         "WebDriverException")

LoginWaitForm ==
    /\ lpc = "form"
    /\ steps' = Append(steps, "form")
    /\ \E user_wait \in {"visible", "timeout", "fault"},
          pass_wait \in {"visible", "timeout", "fault"} :
         LET e == WaitForFields(user_wait, pass_wait)
         IN IF e # NoError
            THEN Raise(e)
            ELSE /\ lpc' = "credentials"
                 /\ UNCHANGED <<login_ret, error>>
    /\ UNCHANGED <<location, username_field, password_field, submitted, candidates,
                   clicks, html, page_title, matched, artifacts>>
    /\ dismissal' = NoDismissal
    /\ UNCHANGED <<evars, xvars>>

\* the five driver calls of lines 178-182
CredentialCalls == 5

\* mutant: the password is typed into the user name field and the user name
\* into the password field
LoginEnterCredentialsSwapped ==
    /\ lpc = "credentials"
    /\ steps' = Append(steps, "credentials")
    /\ \E fault_at \in 0..5 :
         /\ username_field' = IF fault_at = 0 \/ fault_at > 2 THEN Password ELSE ""
         /\ password_field' = IF fault_at = 0 \/ fault_at > 4 THEN Username ELSE ""
         /\ submitted' = (fault_at = 0)
         /\ IF fault_at # 0
            THEN Raise(LoginFailure("Login failed: Unable to enter credentials.",
                                    "WebDriverException"))
            ELSE /\ lpc' = "ignore"
                 /\ UNCHANGED <<login_ret, error>>
    /\ UNCHANGED <<location, candidates, clicks, html, page_title, matched, artifacts>>
    /\ dismissal' = NoDismissal
    /\ UNCHANGED <<evars, xvars>>

\* login(), lines 176-185: clear and type the user name, clear and type the
\* password, send RETURN; fault_at is the call that raises, 0 if none does
LoginEnterCredentials ==
    /\ lpc = "credentials"
    /\ steps' = Append(steps, "credentials")
    /\ \E fault_at \in 0..CredentialCalls :
         /\ username_field' = IF fault_at = 0 \/ fault_at > 2 THEN Username ELSE ""
         /\ password_field' = IF fault_at = 0 \/ fault_at > 4 THEN Password ELSE ""
         /\ submitted' = (fault_at = 0)
         /\ IF fault_at # 0
            THEN Raise(LoginFailure("Login failed: Unable to enter credentials.",
                                    "WebDriverException"))
            ELSE /\ lpc' = "ignore"
                 /\ UNCHANGED <<login_ret, error>>
    /\ UNCHANGED <<location, candidates, clicks, html, page_title, matched, artifacts>>
    /\ dismissal' = NoDismissal
    /\ UNCHANGED <<evars, xvars>>

\* how the 'ignore' prompt can answer: it is clicked; it does not become
\* clickable within the wait; it is not on the page; or the wait, the selector
\* lookup or the click raises anything else
IgnoreOutcomes == {"clicked", "timeout", "nosuch", "fault"}

\* mutant: only the absence of the prompt is caught
ClickIgnoreButtonIfPresentNarrow(seen_button) ==
    [ret |-> seen_button = "clicked",
     raised |-> IF seen_button = "fault" THEN "WebDriverException" ELSE "none"]

\* Utils.click_ignore_button_if_present: True when the button was clicked,
\* False when it did not show or anything raised; the last except clause
\* catches Exception
ClickIgnoreButtonIfPresent(seen_button) ==
    [ret |-> seen_button = "clicked", raised |-> "none"]

\* login(), line 188; the returned value is not used
LoginClickIgnore ==
    /\ lpc = "ignore"
    /\ steps' = Append(steps, "ignore")
    /\ \E seen_button \in IgnoreOutcomes :
         LET r == ClickIgnoreButtonIfPresent(seen_button)
         IN /\ dismissal' = [fn |-> "click_ignore_button_if_present",
                             seen |-> seen_button, ret |-> r.ret]
            /\ IF r.raised # "none"
               THEN Raise([NoError EXCEPT !.kind = r.raised])
               ELSE /\ lpc' = "redirect"
                    /\ UNCHANGED <<login_ret, error>>
    /\ UNCHANGED <<location, username_field, password_field, submitted, candidates,
                   clicks, html, page_title, matched, artifacts>>
    /\ UNCHANGED <<evars, xvars>>

\* login(), lines 190-194: wait for the location to leave the login URL.
\* A timeout starts the fallback; another driver fault of the wait is not
\* caught
LoginWaitRedirect ==
    /\ lpc = "redirect"
    /\ steps' = Append(steps, "redirect")
    /\ \E wait \in {"changed", "timeout", "fault"} :
         IF wait = "fault"
         THEN /\ Raise([NoError EXCEPT !.kind = "WebDriverException"])
              /\ UNCHANGED location
         ELSE IF wait = "timeout"
         THEN /\ lpc' = "fallback"
              /\ UNCHANGED <<login_ret, error, location>>
         ELSE /\ lpc' = "save_modal"
              /\ location' \in Urls \ {LOGIN_URL}
              /\ UNCHANGED <<login_ret, error>>
    /\ UNCHANGED <<username_field, password_field, submitted, candidates, clicks,
                   html, page_title, matched, artifacts>>
    /\ dismissal' = NoDismissal
    /\ UNCHANGED <<evars, xvars>>

\* how many candidate controls the page offers at most
MaxButtons == 2

\* textContent of a candidate control; NoText stands for None
ButtonTexts ==
    { NoText,
        <<" ", "L", "o", "g", " ", "I", "n", " ">>,
        <<"S", "i", "g", "n", " ", "u", "p">> }

\* what a candidate does when used: reading its text raises, its click raises,
\* the location does not change in time after the click, the page does not
\* become ready in time, or all of it succeeds
ButtonBehaviours == {"attr_fault", "click_fault", "url_timeout", "ready_timeout", "ok"}

\* any(keyword in inner_text for keyword in self.keywords)
HasKeyword(inner_text) == \E keyword \in keywords : Contains(inner_text, keyword)

\* a candidate whose text is None raises at line 202 whatever else it would
\* do, and one whose text names no keyword is never clicked
Buttons ==
    { b \in [text : ButtonTexts, behaviour : ButtonBehaviours] :
        IF b.text = NoText
        THEN b.behaviour = "attr_fault"
        ELSE HasKeyword(Lower(Strip(b.text))) \/ b.behaviour \in {"attr_fault", "ok"} }

ButtonLists == UNION { [1..n -> Buttons] : n \in 0..MaxButtons }

\* mutant: the text is compared as written, upper case kept
MatchesKeywordCaseSensitive(btn) ==
    /\ btn.behaviour # "attr_fault"
    /\ btn.text # NoText
    /\ HasKeyword(Strip(btn.text))

\* the candidate's text names a login keyword; a text of None or one that
\* cannot be read makes line 202 raise, which skips the candidate
MatchesKeyword(btn) ==
    /\ btn.behaviour # "attr_fault"
    /\ btn.text # NoText
    /\ HasKeyword(Lower(Strip(btn.text)))

\* login(), lines 200-220: the loop over the candidates from index i on.
\* clicked are the candidates whose click() returned, left is TRUE once a
\* click made the location leave the login URL, success is the break.
RECURSIVE FallbackFrom(_, _, _, _)
FallbackFrom(login_buttons, i, clicked, left) ==
    IF i > Len(login_buttons)
    THEN [success |-> FALSE, clicks |-> clicked, left |-> left]
    ELSE LET btn == login_buttons[i]
         IN IF ~MatchesKeyword(btn)
            THEN FallbackFrom(login_buttons, i + 1, clicked, left)
            ELSE IF btn.behaviour = "click_fault"
            THEN FallbackFrom(login_buttons, i + 1, clicked, left)
            ELSE IF btn.behaviour = "url_timeout"
            THEN FallbackFrom(login_buttons, i + 1, Append(clicked, i), left)
            ELSE IF btn.behaviour = "ready_timeout"
            THEN FallbackFrom(login_buttons, i + 1, Append(clicked, i), TRUE)
            ELSE [success |-> TRUE, clicks |-> Append(clicked, i), left |-> TRUE]

FallbackMessage == "Login failed: Unable to login using fallback method."

\* login(), lines 196-224
LoginFallback ==
    /\ lpc = "fallback"
    /\ steps' = Append(steps, "fallback")
    /\ \E find \in {"ok", "fault"}, login_buttons \in ButtonLists :
         IF find = "fault"
         THEN /\ Raise(LoginFailure(FallbackMessage, "WebDriverException"))
              /\ UNCHANGED <<candidates, clicks, location>>
         ELSE LET r == FallbackFrom(login_buttons, 1, <<>>, FALSE)
              IN /\ candidates' = login_buttons
                 /\ clicks' = r.clicks
                 /\ IF r.left
                    THEN location' \in Urls \ {LOGIN_URL}
                    ELSE UNCHANGED location
                 /\ IF r.success
                    THEN /\ lpc' = "save_modal"
                         /\ UNCHANGED <<login_ret, error>>
                    ELSE Raise(LoginFailure(FallbackMessage,
                                 "Login failed: No suitable login button found."))
    /\ UNCHANGED <<username_field, password_field, submitted, html, page_title,
                   matched, artifacts>>
    /\ dismissal' = NoDismissal
    /\ UNCHANGED <<evars, xvars>>

\* how the 'save login info' modal can answer: it does not show within the
\* wait; the wait or the lookup raises; it shows without a button naming a
\* close keyword; its button is clicked and it goes away; the click raises;
\* or it is still there when the wait after the click ends
SaveModalOutcomes ==
    {"timeout", "fault", "no_button", "dismissed", "click_fault", "stays"}

\* Utils.dismiss_save_login_modal: True when a dismiss button was clicked and
\* the modal went away; False when the modal does not show, no button names
\* a close keyword, or anything raises. Both try blocks catch Exception.
DismissSaveLoginModal(modal) ==
    [ret |-> modal = "dismissed", raised |-> "none"]

\* login(), line 227; the returned value is not used
LoginDismissSaveModal ==
    /\ lpc = "save_modal"
    /\ steps' = Append(steps, "save_modal")
    /\ \E modal \in SaveModalOutcomes :
         LET r == DismissSaveLoginModal(modal)
         IN /\ dismissal' = [fn |-> "dismiss_save_login_modal",
                             seen |-> modal, ret |-> r.ret]
            /\ IF r.raised # "none"
               THEN Raise([NoError EXCEPT !.kind = r.raised])
               ELSE /\ lpc' = "interstitial"
                    /\ UNCHANGED <<login_ret, error>>
    /\ UNCHANGED <<location, username_field, password_field, submitted, candidates,
                   clicks, html, page_title, matched, artifacts>>
    /\ UNCHANGED <<evars, xvars>>

\* what the driver and the file system can answer to the interstitial check,
\* the URL left open. Answers the check never asks for are fixed: nothing is
\* read after a failed read, nothing is captured without a match, nothing is
\* written without the directory
InterstitialAnswers ==
    { io \in [read : {"ok", "fault"}, title : Titles, url : {<<>>}, source : Markups,
              mkdir : {"ok", "fault"}, write : {"ok", "fault"},
              shot : {"ok", "fault"}] :
        /\ io.read = "fault" => (io.title = NoText /\ io.source = NoText)
        /\ (io.read = "fault"
               \/ SignatureOf[io.source] = NoMatch
               \/ io.mkdir = "fault")
             => (io.write = "ok" /\ io.shot = "ok")
        /\ (io.read = "fault"
               \/ SignatureOf[io.source] = NoMatch)
             => io.mkdir = "ok" }

\* the same with the driver's current URL
InterstitialInputs == {[io EXCEPT !.url = location] : io \in InterstitialAnswers}

\* login() quits the driver before it raises out of the interstitial check
LoginCheckInterstitialQuitting ==
    /\ lpc = "interstitial"
    /\ steps' = Append(steps, "interstitial")
    /\ \E io \in InterstitialInputs :
         LET r == CheckForMetaInterstitial(io)
         IN /\ html' = r.html
            /\ page_title' = r.page_title
            /\ matched' = r.matched
            /\ artifacts' = r.artifacts
            /\ lpc' = "done"
            /\ error' = r.error
            /\ login_ret' = IF r.error.kind = "none" THEN "True" ELSE "raised"
            /\ driver_session' = IF r.error.kind = "none" THEN driver_session ELSE "quit"
    /\ UNCHANGED <<location, username_field, password_field, submitted, candidates,
                   clicks>>
    /\ dismissal' = NoDismissal
    /\ UNCHANGED <<find_call, issued, find_ret, ppc, retries, futures, yielded, results>>
    /\ UNCHANGED <<count_text, count_ret, config_file, selectors, load_raised, lookup>>
    /\ UNCHANGED <<ui, run, first_result>>
    /\ UNCHANGED evars

\* login(), lines 229-232: the interstitial check, then return True
LoginCheckInterstitial ==
    /\ lpc = "interstitial"
    /\ steps' = Append(steps, "interstitial")
    /\ \E io \in InterstitialInputs :
         LET r == CheckForMetaInterstitial(io)
         IN /\ html' = r.html
            /\ page_title' = r.page_title
            /\ matched' = r.matched
            /\ artifacts' = r.artifacts
            /\ lpc' = "done"
            /\ error' = r.error
            /\ login_ret' = IF r.error.kind = "none" THEN "True" ELSE "raised"
    /\ UNCHANGED <<location, username_field, password_field, submitted, candidates,
                   clicks>>
    /\ dismissal' = NoDismissal
    /\ UNCHANGED <<evars, xvars>>

NextLogin ==
    \/ LoginNavigate
    \/ LoginWaitForm
    \/ LoginEnterCredentials
    \/ LoginClickIgnore
    \/ LoginWaitRedirect
    \/ LoginFallback
    \/ LoginDismissSaveModal
    \/ LoginCheckInterstitial

SpecLogin == InitLogin /\ [][NextLogin]_vars

\* ============================================================== CountParser
\* the longest text of the exhaustive part of the parser's inputs
MaxTextLen == 3

\* digits, separators, a space, the suffix letters in both cases, another letter
CountAlphabet == {"1", "2", ".", ",", " ", "k", "m", "i", "l", "K", "x"}

ShortTexts == UNION { [1..n -> CountAlphabet] : n \in 0..MaxTextLen }

\* longer texts, put together from an integer part, a separator, a fraction
\* and a suffix
IntParts == { <<>>, <<"0">>, <<"3">>, <<"1", "2">> }
SepParts == { <<>>, <<".">>, <<",">>, <<".", ".">> }
FracParts == { <<>>, <<"2">>, <<"0", "5">>, <<"4", "0", "0">>, <<"1", "2", "3", "4">> }
SuffixParts ==
    { <<>>, <<"k">>, <<"K">>, <<"m">>, <<"m", "i">>, <<"M", "I">>, <<"m", "i", "l">>,
      <<" ", "m", "i", "l">>, <<"m", "k">>, <<"x">>, <<"k", "1">> }

\* Python's integers do not overflow; a run of digits is kept to four so
\* that a value times a million stays within TLC's integers
BuiltParts ==
    { p \in [i : IntParts, s : SepParts, f : FracParts, x : SuffixParts] :
        (p.s = <<>> /\ p.i # <<>>) => p.f = <<>> }

BuiltTexts == { p.i \o p.s \o p.f \o p.x : p \in BuiltParts }

CountTexts ==
    ShortTexts \cup BuiltTexts \cup { <<"1", "2", ".", "3", ".", "4", "k">> }

\* a call of parse_count_text is about to run on some text
InitParser ==
    /\ HelpersIdle
    /\ EngineIdle
    /\ SingleCall
    /\ LoaderIdle
    /\ LoginIdle
    /\ count_text \in CountTexts
    /\ count_ret = NotParsed

\* InstaExtractor.parse_count_text(count_text)
ParseStep ==
    /\ count_ret = NotParsed
    /\ count_ret' = ParseCountText(count_text)
    /\ UNCHANGED <<count_text, config_file, selectors, load_raised, lookup>>
    /\ UNCHANGED <<ui, run, first_result, hvars>>
    /\ UNCHANGED <<evars, lvars>>

NextParser == ParseStep

SpecParser == InitParser /\ [][NextParser]_vars

\* ============================================================ SelectorLoader
\* the keys the package looks up
SelectorKeys ==
    { "FOLLOWERS_LINK", "FOLLOWING_LINK", "CLOSE_MODAL_BUTTON", "PROFILE_USERNAME_SPAN",
      "LOGIN_USERNAME_INPUT", "LOGIN_PASSWORD_INPUT", "LOGIN_BUTTON_CANDIDATE",
      "IGNORE_BUTTON", "LOADING_SPINNER", "SAVE_LOGIN_INFO_BUTTON",
      "SAVE_LOGIN_INFO_DIALOG" }

\* selector strings a file can give to a key
SelectorValues == {"//a", "div.b"}

\* how many keys the small configuration files hold at most
MaxKeys == 2

\* the JSON objects a configuration file can hold: every choice of values for
\* up to MaxKeys keys, and the files with all keys or all keys but one
SmallObjects ==
    UNION { [K -> SelectorValues] : K \in { S \in SUBSET SelectorKeys : Cardinality(S) <= MaxKeys } }

LargeObjects ==
    { [k \in K |-> "//a"] : K \in {SelectorKeys} \cup { SelectorKeys \ {k} : k \in SelectorKeys } }

\* what can be at config_path: nothing, a file that cannot be opened or read,
\* text that is not JSON, a JSON object, or JSON that is not an object (null,
\* a list of strings)
ConfigFiles ==
    { [kind |-> k, content |-> <<>>] : k \in {"missing", "unreadable", "bad_json", "null"} }
      \cup { [kind |-> "object", content |-> m] : m \in SmallObjects \cup LargeObjects }
      \cup { [kind |-> "list", content |-> <<"IGNORE_BUTTON">>] }

EmptyConfig == [kind |-> "dict", map |-> <<>>]

\* mutant: only a missing file and a JSON syntax error are handled
LoadConfigNarrow(file) ==
    IF file.kind = "missing" \/ file.kind = "bad_json"
    THEN [raised |-> "none", selectors |-> EmptyConfig]
    ELSE IF file.kind = "unreadable"
    THEN [raised |-> "OSError", selectors |-> EmptyConfig]
    ELSE IF file.kind = "object"
    THEN [raised |-> "none", selectors |-> [kind |-> "dict", map |-> file.content]]
    ELSE [raised |-> "none", selectors |-> [kind |-> file.kind, map |-> file.content]]

\* SelectorLoader.__init__: self.selectors starts as {} and is replaced by
\* what json.load returns; FileNotFoundError, JSONDecodeError and every other
\* Exception are logged
LoadConfig(file) ==
    IF file.kind \in {"missing", "bad_json", "unreadable"}
    THEN [raised |-> "none", selectors |-> EmptyConfig]
    ELSE IF file.kind = "object"
    THEN [raised |-> "none", selectors |-> [kind |-> "dict", map |-> file.content]]
    ELSE [raised |-> "none", selectors |-> [kind |-> file.kind, map |-> file.content]]

\* SelectorLoader.get: `key not in self.selectors` and self.selectors[key],
\* which raise TypeError when json.load gave null, or a list holding the key
Get(sel, key) ==
    IF sel.kind = "dict"
    THEN IF key \in DOMAIN sel.map
         THEN [raised |-> "none", value |-> sel.map[key]]
         ELSE [raised |-> "KeyError", value |-> "none"]
    ELSE IF sel.kind = "null"
    THEN [raised |-> "TypeError", value |-> "none"]
    ELSE IF key \in Range(sel.map)
         THEN [raised |-> "TypeError", value |-> "none"]
         ELSE [raised |-> "KeyError", value |-> "none"]

\* the exception classes above a class, itself included
Superclasses(exc) ==
    CASE exc = "KeyError" -> {"KeyError", "LookupError", "Exception"}
      [] exc = "TypeError" -> {"TypeError", "Exception"}
      [] OTHER -> {exc, "Exception"}

\* the places that look a selector up: the function, the key, the classes the
\* except clauses around the lookup name, and what the handler that takes
\* the exception does
LookupSites ==
    { [fn |-> "_open_list_modal", key |-> "FOLLOWERS_LINK", catches |-> {}, then |-> "none"],
      [fn |-> "_open_list_modal", key |-> "FOLLOWING_LINK", catches |-> {}, then |-> "none"],
      [fn |-> "_extract_list", key |-> "CLOSE_MODAL_BUTTON",
       catches |-> {"TimeoutException", "WebDriverException"}, then |-> "log"],
      [fn |-> "_perform_dynamic_scroll", key |-> "PROFILE_USERNAME_SPAN",
       catches |-> {}, then |-> "none"],
      [fn |-> "_wait_for_new_profiles", key |-> "PROFILE_USERNAME_SPAN",
       catches |-> {}, then |-> "none"],
      [fn |-> "_extract_visible_profiles", key |-> "PROFILE_USERNAME_SPAN",
       catches |-> {"StaleElementReferenceException"}, then |-> "log"],
      [fn |-> "login", key |-> "LOGIN_USERNAME_INPUT",
       catches |-> {"TimeoutException", "WebDriverException"}, then |-> "raise"],
      [fn |-> "login", key |-> "LOGIN_PASSWORD_INPUT",
       catches |-> {"TimeoutException", "WebDriverException"}, then |-> "raise"],
      [fn |-> "login", key |-> "LOGIN_BUTTON_CANDIDATE",
       catches |-> {"Exception"}, then |-> "raise"],
      [fn |-> "click_ignore_button_if_present", key |-> "IGNORE_BUTTON",
       catches |-> {"TimeoutException", "NoSuchElementException", "Exception"},
       then |-> "return False"],
      [fn |-> "wait_for_new_profiles", key |-> "LOADING_SPINNER",
       catches |-> {"TimeoutException", "StaleElementReferenceException"}, then |-> "log"],
      [fn |-> "dismiss_save_login_modal", key |-> "SAVE_LOGIN_INFO_BUTTON",
       catches |-> {"Exception"}, then |-> "return False"],
      [fn |-> "dismiss_save_login_modal", key |-> "SAVE_LOGIN_INFO_DIALOG",
       catches |-> {"Exception"}, then |-> "continue"] }

\* what becomes of a lookup at a site: the value is used, the exception
\* leaves the function (as it is, or wrapped by a handler that raises), or a
\* handler takes it and the function goes on or returns
LookupAt(site, sel) ==
    LET r == Get(sel, site.key)
    IN IF r.raised = "none"
       THEN [fn |-> site.fn, key |-> site.key, raised |-> "none", value |-> r.value,
             outcome |-> "found"]
       ELSE IF Superclasses(r.raised) \cap site.catches = {}
       THEN [fn |-> site.fn, key |-> site.key, raised |-> r.raised, value |-> "none",
             outcome |-> "aborted"]
       ELSE IF site.then = "raise"
       THEN [fn |-> site.fn, key |-> site.key, raised |-> r.raised, value |-> "none",
             outcome |-> "aborted"]
       ELSE [fn |-> site.fn, key |-> site.key, raised |-> r.raised, value |-> "none",
             outcome |-> "tolerated"]

\* a loader is about to be built over some file
InitSelectors ==
    /\ HelpersIdle
    /\ EngineIdle
    /\ SingleCall
    /\ LoginIdle
    /\ ParserIdle
    /\ config_file \in ConfigFiles
    /\ selectors = Unloaded
    /\ load_raised = "none"
    /\ lookup = NoLookup

\* SelectorLoader(config_path)
LoadStep ==
    /\ selectors = Unloaded
    /\ LET r == LoadConfig(config_file)
       IN /\ selectors' = r.selectors
          /\ load_raised' = r.raised
    /\ UNCHANGED <<config_file, lookup, count_text, count_ret, ui, run, first_result,
                   hvars>>
    /\ UNCHANGED <<evars, lvars>>

\* loader.get(key), called directly
GetStep ==
    /\ selectors # Unloaded
    /\ load_raised = "none"
    /\ \E key \in SelectorKeys \cup {"NON_EXISTENT"} :
         LET r == Get(selectors, key)
         IN lookup' = [fn |-> "get", key |-> key, raised |-> r.raised, value |-> r.value,
                       outcome |-> IF r.raised = "none" THEN "found" ELSE "aborted"]
    /\ UNCHANGED <<config_file, selectors, load_raised, count_text, count_ret>>
    /\ UNCHANGED <<ui, run, first_result, hvars>>
    /\ UNCHANGED <<evars, lvars>>

\* one of the functions of the package reaches its lookup
ConsumeStep ==
    /\ selectors # Unloaded
    /\ load_raised = "none"
    /\ \E site \in LookupSites : lookup' = LookupAt(site, selectors)
    /\ UNCHANGED <<config_file, selectors, load_raised, count_text, count_ret>>
    /\ UNCHANGED <<ui, run, first_result, hvars>>
    /\ UNCHANGED <<evars, lvars>>

NextSelectors ==
    \/ LoadStep
    \/ GetStep
    \/ ConsumeStep

SpecSelectors == InitSelectors /\ [][NextSelectors]_vars

\* ------------------------------------------- the element helpers on their own
\* largest max_retries a helper call is given
MaxTries == 3

\* the elements a lookup can find
Found == {"a", "b"}

\* the conditions a driver lookup can raise: NoSuchElementException,
\* StaleElementReferenceException, or any other driver fault
LookupFaults == {"nosuch", "stale", "fault"}

\* what one driver.find_element call gives: an element, or it raises
FindElementAnswers ==
    {[kind |-> "ok", elems |-> <<e>>] : e \in Found}
        \cup {[kind |-> k, elems |-> <<>>] : k \in LookupFaults}

\* what one driver.find_elements call gives: a list, empty or not, or it raises
FindElementsAnswers ==
    {[kind |-> "ok", elems |-> l] : l \in {<<>>, <<"a">>, <<"b", "a">>}}
        \cup {[kind |-> k, elems |-> <<>>] : k \in LookupFaults}

\* the conditions both helpers name in their except clause
Retryable(o) == o.kind \in {"nosuch", "stale"}

\* a helper is about to be called on its own
InitFind ==
    /\ EngineIdle
    /\ SingleCall
    /\ LoaderIdle
    /\ LoginIdle
    /\ ParserIdle
    /\ find_call \in [fn : {"find_element_safe", "find_elements_safe"},
                      max_retries : 0..MaxTries]
    /\ issued = <<>>
    /\ find_ret = NotReturned
    /\ ppc = "idle"
    /\ retries = 0
    /\ futures = <<>>
    /\ yielded = <<>>
    /\ results = <<>>
    /\ driver_session = "open"

\* catches not-found only: a detached element propagates
FindElementAttemptNarrow ==
    /\ find_call.fn = "find_element_safe"
    /\ find_ret = NotReturned
    /\ Len(issued) < find_call.max_retries
    /\ \E o \in FindElementAnswers :
         /\ issued' = Append(issued, o)
         /\ find_ret' = IF o.kind = "ok" THEN [kind |-> "returned", elems |-> o.elems]
                        ELSE IF o.kind = "nosuch" THEN NotReturned
                        ELSE [kind |-> "raised", elems |-> <<>>]
    /\ UNCHANGED <<find_call, ppc, retries, futures, yielded, results, driver_session>>
    /\ UNCHANGED <<count_text, count_ret, config_file, selectors, load_raised, lookup>>
    /\ UNCHANGED <<ui, run, first_result>>
    /\ UNCHANGED <<evars, lvars>>

\* find_element_safe, lines 75-81: one pass of the loop
FindElementAttempt ==
    /\ find_call.fn = "find_element_safe"
    /\ find_ret = NotReturned
    /\ Len(issued) < find_call.max_retries
    /\ \E o \in FindElementAnswers :
         /\ issued' = Append(issued, o)
         /\ find_ret' = IF o.kind = "ok" THEN [kind |-> "returned", elems |-> o.elems]
                        ELSE IF Retryable(o) THEN NotReturned
                        ELSE [kind |-> "raised", elems |-> <<>>]
    /\ UNCHANGED <<find_call, ppc, retries, futures, yielded, results, driver_session>>
    /\ UNCHANGED <<count_text, count_ret, config_file, selectors, load_raised, lookup>>
    /\ UNCHANGED <<ui, run, first_result>>
    /\ UNCHANGED <<evars, lvars>>

\* find_element_safe, lines 82-83: the loop ran out of attempts
FindElementGiveUp ==
    /\ find_call.fn = "find_element_safe"
    /\ find_ret = NotReturned
    /\ Len(issued) >= find_call.max_retries
    /\ find_ret' = [kind |-> "None", elems |-> <<>>]
    /\ UNCHANGED <<find_call, issued, ppc, retries, futures, yielded, results,
                   driver_session>>
    /\ UNCHANGED <<count_text, count_ret, config_file, selectors, load_raised, lookup>>
    /\ UNCHANGED <<ui, run, first_result>>
    /\ UNCHANGED <<evars, lvars>>

\* catches nothing: not-found and detached propagate like any other fault
FindElementsAttemptUnguarded ==
    /\ find_call.fn = "find_elements_safe"
    /\ find_ret = NotReturned
    /\ Len(issued) < find_call.max_retries
    /\ \E o \in FindElementsAnswers :
         /\ issued' = Append(issued, o)
         /\ find_ret' = IF o.kind = "ok"
                        THEN (IF o.elems # <<>>
                              THEN [kind |-> "returned", elems |-> o.elems]
                              ELSE NotReturned)
                        ELSE [kind |-> "raised", elems |-> <<>>]
    /\ UNCHANGED <<find_call, ppc, retries, futures, yielded, results, driver_session>>
    /\ UNCHANGED <<count_text, count_ret, config_file, selectors, load_raised, lookup>>
    /\ UNCHANGED <<ui, run, first_result>>
    /\ UNCHANGED <<evars, lvars>>

\* find_elements_safe, lines 87-94: one pass of the loop
FindElementsAttempt ==
    /\ find_call.fn = "find_elements_safe"
    /\ find_ret = NotReturned
    /\ Len(issued) < find_call.max_retries
    /\ \E o \in FindElementsAnswers :
         /\ issued' = Append(issued, o)
         /\ find_ret' = IF o.kind = "ok"
                        THEN (IF o.elems # <<>>
                              THEN [kind |-> "returned", elems |-> o.elems]
                              ELSE NotReturned)
                        ELSE IF Retryable(o) THEN NotReturned
                        ELSE [kind |-> "raised", elems |-> <<>>]
    /\ UNCHANGED <<find_call, ppc, retries, futures, yielded, results, driver_session>>
    /\ UNCHANGED <<count_text, count_ret, config_file, selectors, load_raised, lookup>>
    /\ UNCHANGED <<ui, run, first_result>>
    /\ UNCHANGED <<evars, lvars>>

\* find_elements_safe, line 95: the loop ran out of attempts
FindElementsGiveUp ==
    /\ find_call.fn = "find_elements_safe"
    /\ find_ret = NotReturned
    /\ Len(issued) >= find_call.max_retries
    /\ find_ret' = [kind |-> "returned", elems |-> <<>>]
    /\ UNCHANGED <<find_call, issued, ppc, retries, futures, yielded, results,
                   driver_session>>
    /\ UNCHANGED <<count_text, count_ret, config_file, selectors, load_raised, lookup>>
    /\ UNCHANGED <<ui, run, first_result>>
    /\ UNCHANGED <<evars, lvars>>

NextFind ==
    \/ FindElementAttempt
    \/ FindElementGiveUp
    \/ FindElementsAttempt
    \/ FindElementsGiveUp

SpecFind == InitFind /\ [][NextFind]_vars

\* ------------------------------------------------- parallel_find_elements
\* most lookups one call submits (retries)
MaxLookups == 5

\* ThreadPoolExecutor(max_workers=4)
MaxWorkers == 4

\* default of the retries parameter
DefaultRetries == 2

\* what a submitted driver.find_elements call ends with: a list, empty or not,
\* or an exception, which future.result() raises again whatever its class
BranchAnswers ==
    {[kind |-> "ok", elems |-> l] : l \in {<<>>, <<"a">>, <<"b", "a">>}}
        \cup {[kind |-> "fault", elems |-> <<>>]}

\* the futures in a given state
InState(st) == {b \in 1..Len(futures) : futures[b].state = st}

\* a call of parallel_find_elements is about to run
InitParallel ==
    /\ EngineIdle
    /\ SingleCall
    /\ LoaderIdle
    /\ LoginIdle
    /\ ParserIdle
    /\ find_call = NoCall
    /\ issued = <<>>
    /\ find_ret = NotReturned
    /\ retries \in 0..MaxLookups
    /\ ppc = IF retries = 0 THEN "collect" ELSE "submit"
    /\ futures = <<>>
    /\ yielded = <<>>
    /\ results = <<>>
    /\ driver_session = "open"

\* line 193: executor.submit queues one more lookup
SubmitLookup ==
    /\ ppc = "submit"
    /\ futures' = Append(futures, [state |-> "pending", answer |-> [kind |-> "none", elems |-> <<>>]])
    /\ ppc' = IF Len(futures) + 1 = retries THEN "collect" ELSE "submit"
    /\ UNCHANGED <<retries, yielded, results>>
    /\ UNCHANGED <<find_call, issued, find_ret, driver_session>>
    /\ UNCHANGED <<count_text, count_ret, config_file, selectors, load_raised, lookup>>
    /\ UNCHANGED <<ui, run, first_result>>
    /\ UNCHANGED <<evars, lvars>>

\* a worker thread of the pool takes the oldest queued lookup; the pool has at
\* most max_workers threads
StartLookup ==
    /\ InState("pending") # {}
    /\ Cardinality(InState("running")) < MaxWorkers
    /\ LET b == CHOOSE c \in InState("pending") : \A d \in InState("pending") : c <= d
       IN futures' = [futures EXCEPT ![b].state = "running"]
    /\ UNCHANGED <<ppc, retries, yielded, results>>
    /\ UNCHANGED <<find_call, issued, find_ret, driver_session>>
    /\ UNCHANGED <<count_text, count_ret, config_file, selectors, load_raised, lookup>>
    /\ UNCHANGED <<ui, run, first_result>>
    /\ UNCHANGED <<evars, lvars>>

\* driver.find_elements returns or raises on a worker thread; the future holds
\* the list or the exception
FinishLookup ==
    /\ \E b \in InState("running") : \E o \in BranchAnswers :
         futures' = [futures EXCEPT ![b] = [state |-> "done", answer |-> o]]
    /\ UNCHANGED <<ppc, retries, yielded, results>>
    /\ UNCHANGED <<find_call, issued, find_ret, driver_session>>
    /\ UNCHANGED <<count_text, count_ret, config_file, selectors, load_raised, lookup>>
    /\ UNCHANGED <<ui, run, first_result>>
    /\ UNCHANGED <<evars, lvars>>

\* lines 197-202: what one finished future adds to results
Collect(res, o) == IF o.kind = "ok" /\ o.elems # <<>> THEN res \o o.elems ELSE res

\* a branch whose exception escapes the loop instead of being logged
YieldLookupRaising ==
    /\ ppc = "collect"
    /\ \E b \in InState("done") \ Range(yielded) :
         /\ yielded' = Append(yielded, b)
         /\ results' = Collect(results, futures[b].answer)
         /\ ppc' = IF futures[b].answer.kind = "ok" THEN ppc ELSE "raised"
    /\ UNCHANGED <<retries, futures>>
    /\ UNCHANGED <<find_call, issued, find_ret, driver_session>>
    /\ UNCHANGED <<count_text, count_ret, config_file, selectors, load_raised, lookup>>
    /\ UNCHANGED <<ui, run, first_result>>
    /\ UNCHANGED <<evars, lvars>>

\* lines 196-202: as_completed hands over a finished future not handed over yet
YieldLookup ==
    /\ ppc = "collect"
    /\ \E b \in InState("done") \ Range(yielded) :
         /\ yielded' = Append(yielded, b)
         /\ results' = Collect(results, futures[b].answer)
    /\ UNCHANGED <<ppc, retries, futures>>
    /\ UNCHANGED <<find_call, issued, find_ret, driver_session>>
    /\ UNCHANGED <<count_text, count_ret, config_file, selectors, load_raised, lookup>>
    /\ UNCHANGED <<ui, run, first_result>>
    /\ UNCHANGED <<evars, lvars>>

\* returns as soon as one branch found something, without joining the workers
ReturnResultsAtFirst ==
    /\ ppc = "collect"
    /\ results # <<>> \/ Len(yielded) = retries
    /\ ppc' = "returned"
    /\ UNCHANGED <<retries, futures, yielded, results>>
    /\ UNCHANGED <<find_call, issued, find_ret, driver_session>>
    /\ UNCHANGED <<count_text, count_ret, config_file, selectors, load_raised, lookup>>
    /\ UNCHANGED <<ui, run, first_result>>
    /\ UNCHANGED <<evars, lvars>>

\* lines 192 and 203: every future was handed over; leaving the with block
\* joins the worker threads (shutdown(wait=True)), then results is returned
ReturnResults ==
    /\ ppc = "collect"
    /\ Len(yielded) = retries
    /\ InState("pending") \cup InState("running") = {}
    /\ ppc' = "returned"
    /\ UNCHANGED <<retries, futures, yielded, results>>
    /\ UNCHANGED <<find_call, issued, find_ret, driver_session>>
    /\ UNCHANGED <<count_text, count_ret, config_file, selectors, load_raised, lookup>>
    /\ UNCHANGED <<ui, run, first_result>>
    /\ UNCHANGED <<evars, lvars>>

NextParallel ==
    \/ SubmitLookup
    \/ StartLookup
    \/ FinishLookup
    \/ YieldLookup
    \/ ReturnResults

SpecParallel == InitParallel /\ [][NextParallel]_vars

\* ------------------------------------------ one extractor, from login to quit
\* InstaExtractor.__init__, lines 112-113, after login() returned True: the
\* extractor takes over the driver of its InstaLogin; the caller then sets the
\* attributes and calls get_followers / get_following
ConstructedStep ==
    /\ lpc = "done"
    /\ login_ret = "True"
    /\ pc = "idle"
    /\ lpc' = "idle"
    /\ location' = <<>>
    /\ username_field' = ""
    /\ password_field' = ""
    /\ submitted' = FALSE
    /\ steps' = <<>>
    /\ candidates' = <<>>
    /\ clicks' = <<>>
    /\ html' = <<>>
    /\ page_title' = <<>>
    /\ matched' = NoMatch
    /\ artifacts' = NoArtifacts
    /\ dismissal' = NoDismissal
    /\ UNCHANGED <<login_ret, error>>
    /\ pc' = "open"
    /\ max_duration' \in {None} \cup (0..MaxBudget)
    /\ cost' \in 1..MaxCost
    /\ max_refresh_attempts' \in 0..MaxRefresh
    /\ max_retry_without_new_profiles' \in 0..MaxRetry
    /\ UNCHANGED <<outcome, result, total_count, elapsed, locals, usernames, waiter,
                   counters, extraction, stop_reason, trail>>
    /\ UNCHANGED xvars

\* InstaExtractor.quit, lines 347-352, called once the collection call has
\* ended, with a list or with an exception
QuitStep ==
    /\ pc = "done"
    /\ driver_session = "open"
    /\ driver_session' = "quit"
    /\ UNCHANGED <<find_call, issued, find_ret, ppc, retries, futures, yielded, results>>
    /\ UNCHANGED <<count_text, count_ret, config_file, selectors, load_raised, lookup>>
    /\ UNCHANGED <<ui, run, first_result>>
    /\ UNCHANGED <<evars, lvars>>

NextSession ==
    \/ NextLogin
    \/ ConstructedStep
    \/ Next
    \/ QuitStep

\* InstaExtractor(username, password), one collection call, quit()
SpecSession == InitLogin /\ [][NextSession]_vars

\* ================================================================ claims
\* ---------------------------------------------------------------- C1
\* C1: within one get_profiles run the collected set after a step contains the
\* collected set before it (its size never decreases), and a page refresh
\* resets try_count and the progress counter while leaving the set unchanged.
C1_CollectedSetMonotone ==
    [][ /\ unique_profiles \subseteq unique_profiles'
        /\ Cardinality(unique_profiles) <= Cardinality(unique_profiles')
        /\ (refreshes' # refreshes =>
              /\ unique_profiles' = unique_profiles
              /\ try_count' = 0
              /\ previous_count' = 0) ]_vars

\* a refresh has happened in a run that holds handles gathered over several rounds
C1_Witness ==
    /\ refreshes >= 1
    /\ Cardinality(unique_profiles) = 2
    /\ rounds >= 3

\* ---------------------------------------------------------------- C2
\* C2: the returned list has no duplicate and no empty string, and every
\* handle that enters the collected set is the trimmed text of an element of
\* the extraction pass that added it; the list holds collected handles only.
C2_ResultUniqueNonEmptyVisible ==
    /\ [](outcome = "returned" =>
            /\ Cardinality(Range(result)) = Len(result)
            /\ <<>> \notin Range(result)
            /\ Range(result) \subseteq unique_profiles)
    /\ [][ \A h \in unique_profiles' \ unique_profiles :
             \E t \in profile_elements' : Strip(t) = h ]_vars

\* a call returned two handles
C2_Witness ==
    /\ outcome = "returned"
    /\ Len(result) = 2
    /\ rounds >= 2

\* ---------------------------------------------------------------- C3
\* C3: get_followers/get_following never raise once the session exists: a
\* finished call that had collected handles returned a list holding them all.
C3_NeverRaisesNothingDiscarded ==
    (pc = "done" /\ unique_profiles # {}) =>
        /\ outcome = "returned"
        /\ unique_profiles \subseteq Range(result)

\* ---------------------------------------------------------------- C4
\* The UI has yielded no new item so far, the count is positive, there is no
\* budget and no driver fault has escaped.
StallScenario ==
    /\ trail.loop_entered
    /\ unique_profiles = {}
    /\ total_count > 0
    /\ max_duration = None
    /\ trail.error = "none"

C5_BudgetRespected ==
    /\ [](max_duration # None =>
            rounds <= CeilDiv(max_duration, cost) + 1)
    /\ [][ rounds' # rounds =>
             /\ rounds' = rounds + 1
             /\ pc = "top"
             /\ (max_duration # None => elapsed <= max_duration) ]_vars
    /\ [](stop_reason = "budget" /\ pc = "done" =>
            /\ outcome = "returned"
            /\ Range(result) = unique_profiles)

\* the budget stopped a run that had started ceil(B/c)+1 rounds and holds a
\* partial result
C5_Witness ==
    /\ stop_reason = "budget"
    /\ pc = "done"
    /\ max_duration = 2
    /\ cost = 2
    /\ rounds = 2
    /\ Len(result) = 1
    /\ total_count > 1

\* ---------------------------------------------------------------- C6
\* C6: when the collected set holds at least expected_count handles after a
\* round's extraction, the loop stops in that round: no bookkeeping, refresh,
\* scroll or further round follows, and the returned list has at least
\* expected_count elements.
C6_TargetStopsLoop ==
    /\ [][ (pc = "check" /\ Cardinality(unique_profiles) >= total_count) =>
             /\ pc' = "exit"
             /\ stop_reason' = "target"
             /\ UNCHANGED counters ]_vars
    /\ [][ stop_reason = "target" =>
             /\ UNCHANGED <<counters, unique_profiles>>
             /\ pc' \in {"close", "done"}
             /\ outcome' # "raised" ]_vars
    /\ [](stop_reason = "target" /\ pc = "done" =>
            /\ outcome = "returned"
            /\ Len(result) >= total_count)

\* the target of two handles was reached in a later round and the call returned
C6_Witness ==
    /\ stop_reason = "target"
    /\ pc = "done"
    /\ total_count = 2
    /\ Len(result) = 2
    /\ rounds >= 2

C8_NavigationFaultReturnsEmpty ==
    trail.nav_fault =>
        /\ pc = "done"
        /\ outcome = "returned"
        /\ result = <<>>
        /\ ~trail.clicked
        /\ ~trail.loop_entered
        /\ ~trail.close_attempted
        /\ rounds = 0
        /\ scrolls = 0

\* navigation faulted and the call is over
C8_Witness ==
    /\ trail.nav_fault
    /\ pc = "done"

\* ---------------------------------------------------------------- C9
\* C9: when locating or clicking the close control fails, the call does not
\* raise and returns exactly the list get_profiles collected.
C9_CloseFailureKeepsResult ==
    trail.close_failed =>
        /\ pc = "done"
        /\ outcome = "returned"
        /\ result = usernames
        /\ (trail.loop_entered => Range(result) = unique_profiles)

\* the close failed after two handles were collected
C9_Witness ==
    /\ trail.close_failed
    /\ Len(result) = 2

\* the markup the post-login check inspected holds a known signature, compared
\* without regard to case
SignatureInMarkup ==
    \E i \in DOMAIN META_VERIFIED_SIGNATURES :
        Contains(Lower(html), META_VERIFIED_SIGNATURES[i])

PostLoginCheckDone ==
    /\ lpc = "done"
    /\ steps # <<>>
    /\ steps[Len(steps)] = "interstitial"

\* C10: whenever, at the post-login check, the page markup contains one of the
\* known interstitial signatures (compared case-insensitively), login never
\* returns True and raises the interstitial error; conversely login returns
\* True only if no signature was present in the markup it inspected.
C10_SignatureRaisesInterstitial ==
    PostLoginCheckDone =>
        /\ SignatureInMarkup =>
             /\ login_ret # "True"
             /\ login_ret = "raised"
             /\ error.kind = "MetaInterstitialError"
        /\ login_ret = "True" => ~SignatureInMarkup

\* the attributes a raised error offers to the caller
ErrorAttributes == DOMAIN error

\* C11: the interstitial error raised on detection carries the URL, the page
\* title, the signature that matched, and non-empty references to the captured
\* evidence (markup snapshot and visual snapshot locations).
C11_InterstitialErrorCarriesSignature ==
    (lpc = "done" /\ error.kind = "MetaInterstitialError") =>
        /\ error.url = location
        /\ error.page_title = page_title
        /\ error.evidence_path # ""
        /\ error.screenshot_path # ""
        /\ "matched" \in ErrorAttributes
        /\ error.matched = matched

\* the primary submit timed out, the fallback enumerated the candidates, and
\* one of them has a text containing 'log in' whatever the case, changes the
\* location when clicked and lets the document become ready
LogInCandidateWorks ==
    /\ "fallback" \in Range(steps)
    /\ \E i \in DOMAIN candidates :
         /\ candidates[i].text # NoText
         /\ Contains(Lower(candidates[i].text), <<"l", "o", "g", " ", "i", "n">>)
         /\ candidates[i].behaviour = "ok"

\* the interstitial check ended the call
RaisedByInterstitialCheck ==
    /\ login_ret = "raised"
    /\ steps[Len(steps)] = "interstitial"
    /\ error.kind \in {"MetaInterstitialError", "OSError", "WebDriverException"}

\* C12 as stated: if the primary submit does not change the location within
\* timeout, a candidate control's text contains 'log in' case-insensitively,
\* and clicking it changes the location and the document becomes ready, then
\* login returns True via the fallback path.
C12_FallbackSucceeds ==
    (lpc = "done" /\ LogInCandidateWorks) => login_ret = "True"

\* C12 amended: under the same premise the fallback path clicks a candidate
\* and ends without a login error, the steps after it run, and login returns
\* True unless the interstitial check raises.
C12_FallbackReachesInterstitialCheck ==
    (lpc = "done" /\ LogInCandidateWorks) =>
        /\ clicks # <<>>
        /\ candidates[clicks[Len(clicks)]].behaviour = "ok"
        /\ location # LOGIN_URL
        /\ "interstitial" \in Range(steps)
        /\ IF matched = NoMatch /\ error.kind = "none"
           THEN login_ret = "True"
           ELSE RaisedByInterstitialCheck

C12_Witness ==
    /\ lpc = "done"
    /\ LogInCandidateWorks
    /\ login_ret = "True"
    /\ Len(candidates) > 1
    /\ clicks = <<Len(candidates)>>

\* the call ended in the wait for the form
EndedAtForm ==
    /\ lpc = "done"
    /\ steps # <<>>
    /\ steps[Len(steps)] = "form"

\* C13: if the username or password field does not become visible within
\* timeout, or the driver faults while locating them, login fails with the
\* form-not-found login error (on timeout the message is the one about the
\* timeout waiting for the login form elements); no credentials are typed and
\* none of the later steps is executed.
C13_FormNotFoundStopsLogin ==
    /\ \A user_wait \in {"visible", "timeout", "fault"},
          pass_wait \in {"visible", "timeout", "fault"} :
         (user_wait # "visible" \/ pass_wait # "visible") =>
            LET e == WaitForFields(user_wait, pass_wait)
                timed_out == \/ user_wait = "timeout"
                             \/ user_wait = "visible" /\ pass_wait = "timeout"
            IN /\ e.kind = "Exception"
               /\ IF timed_out
                  THEN e.message = "Login failed: Timeout waiting for login form elements."
                  ELSE e.message = "Login failed: WebDriver error during element location."
    /\ EndedAtForm =>
         /\ login_ret = "raised"
         /\ error.kind = "Exception"
         /\ error.cause \in {"TimeoutException", "WebDriverException"}
         /\ error.cause = "TimeoutException" =>
              error.message = "Login failed: Timeout waiting for login form elements."
         /\ username_field = ""
         /\ password_field = ""
         /\ ~submitted
         /\ steps = <<"navigate", "form">>
         /\ candidates = <<>>
         /\ clicks = <<>>
         /\ html = <<>>
         /\ matched = NoMatch
         /\ artifacts = NoArtifacts

C13_Witness ==
    /\ EndedAtForm
    /\ error.cause = "TimeoutException"

\* the primary submit made the location leave the login URL within the wait
RedirectedStep ==
    /\ lpc = "redirect"
    /\ location = LOGIN_URL
    /\ location' # LOGIN_URL

\* the interstitial check of a call that never entered the fallback returns
\* or raises
DirectCallEnds ==
    /\ lpc = "interstitial"
    /\ lpc' = "done"
    /\ "fallback" \notin Range(steps)

CredentialsTyped ==
    /\ username_field = Username
    /\ password_field = Password
    /\ submitted

\* C14 as stated: when both fields become visible and the location leaves the
\* login URL within timeout after the primary submit, login returns True, the
\* user name was typed into the user name field and the password into the
\* password field before the submit, and the fallback path is never entered.
C14_RedirectReturnsTrue ==
    [][/\ RedirectedStep =>
            /\ lpc' = "save_modal"
            /\ CredentialsTyped
            /\ candidates' = <<>> /\ clicks' = <<>>
       /\ DirectCallEnds =>
            /\ login_ret' = "True"
            /\ CredentialsTyped'
            /\ candidates' = <<>> /\ clicks' = <<>>
            /\ "fallback" \notin Range(steps')]_vars

\* C14 amended: the same, except that login returns True only when the
\* interstitial check that follows does not raise.
C14_RedirectReachesInterstitialCheck ==
    [][/\ RedirectedStep =>
            /\ lpc' = "save_modal"
            /\ CredentialsTyped
            /\ candidates' = <<>> /\ clicks' = <<>>
       /\ DirectCallEnds =>
            /\ IF matched' = NoMatch /\ error'.kind = "none"
               THEN login_ret' = "True"
               ELSE RaisedByInterstitialCheck'
            /\ CredentialsTyped'
            /\ candidates' = <<>> /\ clicks' = <<>>
            /\ "fallback" \notin Range(steps')]_vars

C14_Witness ==
    /\ lpc = "done"
    /\ login_ret = "True"
    /\ steps = <<"navigate", "form", "credentials", "ignore", "redirect",
                 "save_modal", "interstitial">>
    /\ CredentialsTyped
    /\ location # LOGIN_URL

\* the call ended in the fallback
FallbackFailed ==
    /\ lpc = "done"
    /\ login_ret = "raised"
    /\ steps # <<>>
    /\ steps[Len(steps)] = "fallback"

\* no enumerated candidate has a text containing a login keyword
NoCandidateMatches ==
    \A i \in DOMAIN candidates :
        \/ candidates[i].text = NoText
        \/ ~HasKeyword(Lower(Strip(candidates[i].text)))

\* what the caller can read from the surfaced error
SurfacedReason == <<error.kind, error.message, error.cause>>

NoSuitableButton ==
    <<"Exception", FallbackMessage, "Login failed: No suitable login button found.">>

\* C15: in the fallback path login never returns True unless a clicked
\* candidate changed the location, and the failure reasons are distinct: with
\* no candidate text containing a login keyword login fails with the reason
\* NoSuitableButton; when a matching candidate was clicked and the wait after
\* the click timed out it fails with another reason, so that the caller can
\* tell the two apart from the surfaced error.
C15_FallbackReasonsDistinct ==
    /\ (lpc = "done" /\ login_ret = "True" /\ "fallback" \in Range(steps)) =>
          /\ clicks # <<>>
          /\ candidates[clicks[Len(clicks)]].behaviour = "ok"
          /\ location # LOGIN_URL
    /\ (FallbackFailed /\ candidates # <<>> /\ NoCandidateMatches) =>
          SurfacedReason = NoSuitableButton
    /\ (FallbackFailed /\ clicks # <<>>) =>
          SurfacedReason # NoSuitableButton

\* ---- the reference parser of C16
RefMultiplier(x) ==
    CASE x = <<"k">> -> 1000
      [] x = <<"m">> -> 1000000
      [] x = <<"m", "i">> -> 1000000
      [] x = <<"m", "i", "l">> -> 1000
      [] OTHER -> 1

AllDigits(s) == \A i \in DOMAIN s : s[i] \in {"0", "1", "2", "3", "4", "5", "6", "7", "8", "9"}

RefFailure == [ok |-> FALSE, value |-> 0]

\* the ways to read t as <digits>[.,]<digits><suffix>: a digits, s separators
\* (none or one), f fraction digits, the rest a suffix or nothing
RefReadings(t) ==
    { d \in [a : 1..Len(t), s : 0..1, f : 0..Len(t)] :
        /\ d.a + d.s + d.f <= Len(t)
        /\ AllDigits(SubSeq(t, 1, d.a))
        /\ d.s = 1 => t[d.a + 1] \in {".", ","}
        /\ AllDigits(SubSeq(t, d.a + d.s + 1, d.a + d.s + d.f))
        /\ SubSeq(t, d.a + d.s + d.f + 1, Len(t))
             \in {<<>>, <<"k">>, <<"m">>, <<"m", "i">>, <<"m", "i", "l">>} }

RefValue(t, d) ==
    LET int_part == SubSeq(t, 1, d.a)
        frac_part == SubSeq(t, d.a + d.s + 1, d.a + d.s + d.f)
        mult == RefMultiplier(SubSeq(t, d.a + d.s + d.f + 1, Len(t)))
    IN IntOf(int_part) * mult
         + (IF d.f = 0 THEN 0 ELSE IntOf(frac_part) * (mult \div Pow10(d.f)))

RefParse(raw) ==
    IF raw = <<>> THEN RefFailure
    ELSE
      LET t == RemoveChars(Lower(raw), {" ", "\t", "\n"})
          has_suffix_letter == \E i \in DOMAIN t : t[i] \in {"k", "m"}
      IN IF ~has_suffix_letter
         THEN LET plain == RemoveChars(t, {".", ","})
              IN IF plain # <<>> /\ AllDigits(plain)
                 THEN [ok |-> TRUE, value |-> IntOf(plain)]
                 ELSE RefFailure
         ELSE LET readings == RefReadings(t)
              IN IF readings = {} THEN RefFailure
                 ELSE LET d == CHOOSE d \in readings : \A e \in readings : e.a <= d.a
                      IN [ok |-> TRUE, value |-> RefValue(t, d)]

\* C16: parse_count_text agrees with the reference parser on every input over
\* a bounded alphabet of digits, '.', ',', spaces and letters, the division by
\* 10^digitsInFrac being the integer one; in particular parse('12k') = 12000,
\* parse('1.2k') = 1200, parse('3,400') = 3400, parse('2mi') = 2000000, and
\* parse('') and parse('12.3.4k') fail.
C16_ParserAgreesWithReference ==
    /\ count_ret # NotParsed => count_ret = RefParse(count_text)
    /\ ParseCountText(<<"1", "2", "k">>) = [ok |-> TRUE, value |-> 12000]
    /\ ParseCountText(<<"1", ".", "2", "k">>) = [ok |-> TRUE, value |-> 1200]
    /\ ParseCountText(<<"3", ",", "4", "0", "0">>) = [ok |-> TRUE, value |-> 3400]
    /\ ParseCountText(<<"2", "m", "i">>) = [ok |-> TRUE, value |-> 2000000]
    /\ ~ParseCountText(<<>>).ok
    /\ ~ParseCountText(<<"1", "2", ".", "3", ".", "4", "k">>).ok

C16_Witness ==
    /\ count_text = <<"1", "2", ",", "0", "5", " ", "m", "i", "l">>
    /\ count_ret = [ok |-> TRUE, value |-> 12050]

\* a function of the package looked up a key the loaded configuration lacks
MissingKeyLookedUp ==
    /\ lookup.fn \notin {"none", "get"}
    /\ selectors.kind = "dict"
    /\ lookup.key \notin DOMAIN selectors.map

\* C17: for every selector key looked up during authentication or
\* collection, if the key is absent from the configuration the lookup raises
\* KeyError and that aborts the consuming operation; no code path treats a
\* missing key as 'element not present' and carries on.
C17_MissingKeyAborts ==
    MissingKeyLookedUp =>
        /\ lookup.raised = "KeyError"
        /\ lookup.outcome = "aborted"

\* C18: constructing a SelectorLoader never raises: when the configuration
\* file is missing or its content is malformed the loader holds an empty
\* configuration, so that every get raises KeyError, and when the file is a
\* valid object get(key) returns exactly the loaded value for each key present.
C18_LoaderNeverRaises ==
    selectors # Unloaded =>
        /\ load_raised = "none"
        /\ config_file.kind \in {"missing", "bad_json", "unreadable"} =>
             /\ selectors = EmptyConfig
             /\ \A key \in SelectorKeys \cup {"NON_EXISTENT"} :
                  Get(selectors, key).raised = "KeyError"
             /\ lookup.fn = "get" => lookup.raised = "KeyError"
        /\ config_file.kind = "object" =>
             /\ \A key \in DOMAIN config_file.content :
                  Get(selectors, key) = [raised |-> "none", value |-> config_file.content[key]]
             /\ (lookup.fn = "get" /\ lookup.key \in DOMAIN config_file.content) =>
                  /\ lookup.raised = "none"
                  /\ lookup.value = config_file.content[lookup.key]

C18_Witness ==
    /\ config_file.kind = "object"
    /\ lookup.fn = "get"
    /\ lookup.key = "IGNORE_BUTTON"
    /\ lookup.value = "div.b"

StepOrder ==
    <<"navigate", "form", "credentials", "ignore", "redirect", "fallback",
      "save_modal", "interstitial">>

StepIndex(step) == CHOOSE i \in DOMAIN StepOrder : StepOrder[i] = step

Occurrences(step, log) == Cardinality({i \in DOMAIN log : log[i] = step})

\* every step at most once, and in the order of StepOrder
StepsInOrder(log) ==
    \A i, j \in DOMAIN log : i < j => StepIndex(log[i]) < StepIndex(log[j])

\* all steps of a complete call: the wait for the redirect, then the fallback
\* or not
CompleteLogs ==
    { <<"navigate", "form", "credentials", "ignore", "redirect", "save_modal",
        "interstitial">>,
      StepOrder }

\* C20: in every login call the steps occur at most once each and in the
\* order navigate, form visible, credentials submitted, (redirected | fallback
\* click), obstacle check, interstitial check, success; login returns True
\* only after all of them, never re-enters an earlier step after a failure,
\* navigates to the login URL once and submits the credentials once.
C20_StepsOnceInOrder ==
    [][/\ StepsInOrder(steps')
       /\ Len(steps') = Len(steps) + 1
       /\ SubSeq(steps', 1, Len(steps)) = steps
       /\ Occurrences("navigate", steps') = 1
       /\ Occurrences("credentials", steps') <= 1
       /\ submitted' => Occurrences("credentials", steps') = 1
       /\ login_ret' = "True" =>
            /\ steps' \in CompleteLogs
            /\ submitted'
            /\ lpc' = "done"
       /\ lpc # "done"
       /\ login_ret' = "raised" => lpc' = "done"]_vars

C20_Witness ==
    /\ login_ret = "True"
    /\ steps = StepOrder

\* the candidates, in enumeration order, whose text can be read and contains a
\* login keyword
MatchingCandidates == {i \in DOMAIN candidates : MatchesKeyword(candidates[i])}

FirstMatchingCandidate ==
    CHOOSE i \in MatchingCandidates : \A j \in MatchingCandidates : i <= j

\* C21: in the fallback path at most one candidate control is clicked during
\* a login call, and it is the first control in enumeration order whose text
\* contains a login keyword case-insensitively; controls after it are never
\* clicked, also when the wait that follows the click fails.
C21_OnlyFirstMatchClicked ==
    /\ Len(clicks) <= 1
    /\ \A k \in DOMAIN clicks :
         /\ clicks[k] \in MatchingCandidates
         /\ clicks[k] = FirstMatchingCandidate

\* a round's bookkeeping ran to its end
BookkeepingDone == pc = "bookkeep" /\ pc' = "top"

\* the bookkeeping refreshed the page, or raised in trying to
RefreshedNow == refreshes' = refreshes + 1

RefreshFailedNow == pc = "bookkeep" /\ pc' = "done"

\* the round at hand is the (max_retry_without_new_profiles+1)-th in a row
\* without a new handle since the last refresh or the last new handle
StallLimitRound ==
    /\ ~new_profiles_found
    /\ stalled + 1 = max_retry_without_new_profiles + 1

\* C22: after every round's bookkeeping 0 <= try_count <=
\* max_retry_without_new_profiles and refresh_attempts <= max_refresh_attempts;
\* a round that adds a new handle resets try_count to 0 and never refreshes; a
\* page refresh happens exactly in a round that is the
\* (max_retry_without_new_profiles+1)-th consecutive round without a new
\* handle since the last refresh or the last new handle, and that round
\* increments refresh_attempts by one and resets try_count and the progress
\* counter to 0.
C22_BookkeepingCounters ==
    [][/\ BookkeepingDone =>
            /\ 0 <= try_count'
            /\ try_count' <= max_retry_without_new_profiles
            /\ refresh_attempts' <= max_refresh_attempts
            /\ refreshes' \in {refreshes, refreshes + 1}
            /\ new_profiles_found =>
                 /\ try_count' = 0
                 /\ ~RefreshedNow
                 /\ refresh_attempts' = refresh_attempts
            /\ RefreshedNow <=> StallLimitRound
            /\ RefreshedNow =>
                 /\ refresh_attempts' = refresh_attempts + 1
                 /\ try_count' = 0
                 /\ previous_count' = 0
            /\ ~RefreshedNow => refresh_attempts' = refresh_attempts
       /\ RefreshFailedNow => StallLimitRound
       /\ ~(pc = "bookkeep") => refreshes' = refreshes]_vars

\* a call that had a round with a new handle, a stalled round that did not
\* refresh, and a refresh
C22_Witness ==
    /\ pc = "top"
    /\ max_retry_without_new_profiles = 1
    /\ refreshes = 1
    /\ refresh_attempts = 1
    /\ try_count = 0
    /\ previous_count = 0
    /\ unique_profiles # {}
    /\ bookkeeps >= 3

\* a call of wait_for_new_profiles is running
InWaiter == pc \in {"wait", "wait_scroll"}

\* C23: every call of wait_for_new_profiles eventually returns (or raises),
\* for any UI behaviour, including item elements that keep raising staleness
\* faults when their text is read and content that is new only in post-scroll
\* snapshots and gone again at the next pre-scroll snapshot.
C23_WaiterReturns == [](InWaiter => <>(~InWaiter))

\* the running waiter call ends in this step with a returned value
WaiterReturnsNow == InWaiter /\ pc' = "extract"

\* this step of the waiter took a snapshot and read its texts, without a
\* driver fault
SnapshotReadNow == InWaiter /\ pc' # "done" /\ wait_snapshot'.taken

\* the snapshot just taken shows a non-empty trimmed text that is not in
\* existing_profiles
NewContentSeen ==
    /\ SnapshotReadNow
    /\ ~wait_snapshot'.stale
    /\ ~(wait_snapshot'.texts \subseteq unique_profiles)

\* C24: wait_for_new_profiles returns the boolean newContentSeen: True exactly
\* when a snapshot taken at the start of an iteration contains a non-empty
\* trimmed text that is not in existing_profiles, returned immediately
\* without scrolling in that iteration; and False when it leaves the loop
\* because the post-scroll snapshot is still a subset of existing_profiles.
\* When the post-scroll snapshot does contain something new it loops again
\* from the loading-indicator step.
C24_WaiterReturnsBoolean ==
    [][/\ WaiterReturnsNow =>
            /\ wait_ret' \in {"True", "False"}
            /\ (wait_ret' = "True") <=> (pc = "wait" /\ NewContentSeen)
            /\ (wait_ret' = "False") <=> (pc = "wait_scroll" /\ ~NewContentSeen)
       /\ (pc = "wait" /\ NewContentSeen) => (WaiterReturnsNow /\ scrolls' = scrolls)
       /\ (pc = "wait_scroll" /\ NewContentSeen) => (pc' = "wait" /\ wait_ret' = wait_ret)
       /\ (pc = "wait_scroll" /\ SnapshotReadNow /\ ~wait_snapshot'.stale
             /\ ~NewContentSeen) => WaiterReturnsNow]_vars

\* every call of the waiter returns or raises
EveryWaiterCallReturns == InWaiter ~> ~InWaiter

\* get_profiles has ended: by its return to _extract_list or by a fault
GetProfilesEnded == pc \in {"close", "done"}

\* C25: with a finite max_refresh_attempts and a UI that offers only finitely
\* many distinct handles, get_profiles eventually terminates even when no
\* budget is given and the expected count is never reached, provided every
\* waiter call returns.
C25_GetProfilesTerminates ==
    EveryWaiterCallReturns => ((pc = "body") ~> GetProfilesEnded)

\* a call without a budget that ended at the ceiling, short of the expected
\* count, after a new handle had reset the retry counter
C25_Witness ==
    /\ pc = "close"
    /\ max_duration = None
    /\ stop_reason = "ceiling"
    /\ refresh_attempts = max_refresh_attempts
    /\ max_refresh_attempts = MaxRefresh
    /\ unique_profiles # {}
    /\ Cardinality(unique_profiles) < total_count

\* reading the text of an item element raised staleness in this step: in a
\* snapshot of the waiter, or in the extraction pass
StaleInWaiterNow == InWaiter /\ pc' # "done" /\ wait_snapshot'.taken /\ wait_snapshot'.stale

StaleInExtractionNow == pc = "extract" /\ stale_skipped'

\* C26: a staleness (element detached) fault raised while an item element's
\* text is read, in the waiter's snapshots or in the engine's extraction,
\* never propagates out of get_profiles and never removes handles already
\* collected; in extraction the remaining elements of the same snapshot are
\* still processed after the faulty one is skipped.
C26_StalenessAbsorbed ==
    [][/\ (StaleInWaiterNow \/ StaleInExtractionNow) =>
            /\ outcome' = "running"
            /\ trail'.error = "none"
            /\ unique_profiles \subseteq unique_profiles'
       /\ StaleInWaiterNow =>
            /\ pc' = "wait"
            /\ unique_profiles' = unique_profiles
       /\ StaleInExtractionNow =>
            /\ pc' = "check"
            /\ \A t \in profile_elements' :
                 Strip(t) # <<>> => Strip(t) \in unique_profiles'
            /\ new_profiles_found' <=>
                 (\E t \in profile_elements' :
                    Strip(t) # <<>> /\ Strip(t) \notin unique_profiles)
       /\ (pc \in {"wait", "wait_scroll", "extract"} /\ outcome' = "raised") =>
            /\ ~stale_skipped'
            /\ trail'.error = "WebDriverException"]_vars

\* a pass that skipped a detached element and collected a handle from another
\* element of the same snapshot, next to a handle collected before
C26_Witness ==
    /\ pc = "check"
    /\ stale_skipped
    /\ new_profiles_found
    /\ Cardinality(unique_profiles) = 2
    /\ Cardinality(profile_elements) = 1

\* a round is under way: between the budget test and the end of its
\* bookkeeping
InRound == pc \in {"scroll", "wait", "wait_scroll", "extract", "check", "bookkeep"}

BudgetElapsed == IsMaxDurationExceeded(elapsed, max_duration)

\* C27: the budget is consulted only at the top of a round: once a round has
\* started it runs its scroll, wait, snapshot and bookkeeping to completion
\* even if the budget elapses during it, the handles visible in that round are
\* part of the returned result, and round N+1 never starts before round N's
\* snapshot and bookkeeping are complete.
C27_BudgetOnlyAtTop ==
    [][/\ (stop_reason' = "budget" /\ stop_reason # "budget") =>
            (pc = "top" /\ BudgetElapsed)
       /\ (InRound /\ BudgetElapsed) =>
            /\ pc = "scroll" => pc' = "wait"
            /\ pc = "wait" => pc' \in {"wait", "wait_scroll", "extract", "done"}
            /\ pc = "wait_scroll" => pc' \in {"wait", "extract", "done"}
            /\ pc = "extract" => pc' \in {"check", "done"}
            /\ pc = "check" => (pc' = "bookkeep" \/ (pc' = "exit" /\ stop_reason' = "target"))
            /\ pc = "bookkeep" => pc' \in {"top", "done"}
            /\ pc' = "done" => outcome' = "raised"
            /\ (pc = "extract" /\ pc' = "check") =>
                 \A t \in profile_elements' :
                    Strip(t) # <<>> => Strip(t) \in unique_profiles'
       /\ (pc = "exit") => Range(usernames') = unique_profiles
       /\ (pc = "close") => result' = usernames
       /\ (rounds' # rounds) =>
            /\ pc = "top"
            /\ rounds' = rounds + 1
            /\ scrolls = rounds
            /\ bookkeeps = rounds
            /\ profile_elements = {}
            /\ wait_ret = "none"]_vars

\* the budget elapsed during the first round, and the round went on to collect
\* a handle
C27_Witness ==
    /\ pc = "bookkeep"
    /\ max_duration = 0
    /\ rounds = 1
    /\ BudgetElapsed
    /\ new_profiles_found
    /\ unique_profiles # {}

\* the text contains a signature of the list, compared case-insensitively
HasSignature(text) ==
    \E i \in DOMAIN META_VERIFIED_SIGNATURES :
        Contains(Lower(text), META_VERIFIED_SIGNATURES[i])

\* C28: the interstitial check matches the fixed signature list
\* case-insensitively against the current page title, the URL and the full
\* markup: a signature occurring in any one of the three makes login fail
\* with the interstitial error.
C28_SignatureAnywhereRaises ==
    (PostLoginCheckDone /\ error.kind # "WebDriverException") =>
        ((HasSignature(page_title) \/ HasSignature(location) \/ HasSignature(html)) =>
            /\ login_ret = "raised"
            /\ error.kind = "MetaInterstitialError")

\* the check matched a signature and a step of the evidence capture failed
CaptureFailed ==
    /\ PostLoginCheckDone
    /\ matched # NoMatch
    /\ (~artifacts.dir \/ ~artifacts.markup \/ ~artifacts.screenshot)

\* C29: when a signature matched, the failure of any evidence-capture step
\* (creating the artifacts location, writing the markup snapshot, taking the
\* visual snapshot) is never escalated: login still fails with the
\* interstitial error, not with the capture step's own error.
C29_CaptureFailureNotEscalated ==
    CaptureFailed =>
        /\ login_ret = "raised"
        /\ error.kind = "MetaInterstitialError"
        /\ error.message = InterstitialMessage

\* what login() holds besides its position and the dismissal just made
LoginProgress ==
    <<login_ret, error, location, username_field, password_field, submitted,
      candidates, clicks, html, page_title, matched, artifacts>>

\* C30: the outcome of login does not depend on the opportunistic dismissals:
\* whether the 'ignore' prompt and the 'save login info' modal are absent,
\* cannot be clicked, or do not disappear within the wait,
\* click_ignore_button_if_present and dismiss_save_login_modal return without
\* raising and login proceeds to its next step.
C30_DismissalsNeverFatal ==
    [][/\ lpc = "ignore" =>
            /\ lpc' = "redirect"
            /\ dismissal'.fn = "click_ignore_button_if_present"
            /\ dismissal'.seen \in IgnoreOutcomes
            /\ dismissal'.ret <=> (dismissal'.seen = "clicked")
       /\ lpc = "save_modal" =>
            /\ lpc' = "interstitial"
            /\ dismissal'.fn = "dismiss_save_login_modal"
            /\ dismissal'.seen \in SaveModalOutcomes
            /\ dismissal'.ret <=> (dismissal'.seen = "dismissed")
       /\ lpc \in {"ignore", "save_modal"} =>
            /\ login_ret' = "running"
            /\ error' = NoError
            /\ LoginProgress' = LoginProgress
       /\ lpc \notin {"ignore", "save_modal"} => dismissal' = NoDismissal]_vars

\* the modal was still there after the click, and login went on to the
\* interstitial check
C30_Witness ==
    /\ lpc = "interstitial"
    /\ login_ret = "running"
    /\ dismissal.fn = "dismiss_save_login_modal"
    /\ dismissal.seen = "stays"
    /\ ~dismissal.ret

\* ---------------------------------------------------------------- C31
\* a find_elements_safe call
FindingMany == find_call.fn = "find_elements_safe"

\* the lookup found nothing: an empty list, or one of the two conditions the
\* helper names in its except clause
CameUpEmpty(o) == (o.kind = "ok" /\ o.elems = <<>>) \/ Retryable(o)

\* C31: find_elements_safe issues at most max_retries lookups; when it returns
\* a non-empty list, that list is what its last lookup gave and every earlier
\* lookup came up empty (an empty list, not-found or detached); once it has
\* ended it issues no further lookup; and when every lookup it issued came up
\* empty it returns the empty list and raises nothing. It raises only the
\* driver fault, other than not-found and detached, of its last lookup.
C31_FindManyBoundedFirstNonEmpty ==
    /\ [](FindingMany =>
            /\ Len(issued) <= find_call.max_retries
            /\ \A i \in 1..(Len(issued) - 1) : CameUpEmpty(issued[i])
            /\ (find_ret.kind = "returned" /\ find_ret.elems # <<>>) =>
                   /\ issued # <<>>
                   /\ issued[Len(issued)] = [kind |-> "ok", elems |-> find_ret.elems]
            /\ (find_ret # NotReturned /\ \A i \in 1..Len(issued) : CameUpEmpty(issued[i])) =>
                   /\ find_ret = [kind |-> "returned", elems |-> <<>>]
                   /\ Len(issued) = find_call.max_retries
            /\ find_ret.kind \in {"running", "returned", "raised"}
            /\ find_ret.kind = "raised" =>
                   /\ issued # <<>>
                   /\ issued[Len(issued)].kind = "fault")
    /\ [][(FindingMany /\ find_ret # NotReturned) => issued' = issued]_vars

\* three lookups: not-found, an empty list, then two elements, which are returned
C31_Witness ==
    /\ FindingMany
    /\ find_call.max_retries = 3
    /\ Len(issued) = 3
    /\ issued[1].kind = "nosuch"
    /\ issued[2] = [kind |-> "ok", elems |-> <<>>]
    /\ find_ret = [kind |-> "returned", elems |-> <<"b", "a">>]

\* ---------------------------------------------------------------- C32
\* a find_element_safe call
FindingOne == find_call.fn = "find_element_safe"

\* C32: find_element_safe makes at most max_retries lookups (3 when it is left
\* at its default); every lookup before the last raised not-found or detached;
\* it returns an element only as what its last lookup found, and issues no
\* lookup after it ended; it returns None exactly when it ended after
\* max_retries lookups that all raised not-found or detached; and it raises
\* only when its last lookup raised some other driver fault.
C32_FindOneBoundedAbsorbs ==
    /\ [](FindingOne =>
            /\ Len(issued) <= find_call.max_retries
            /\ find_call.max_retries = DefaultMaxRetries => Len(issued) <= 3
            /\ \A i \in 1..(Len(issued) - 1) : Retryable(issued[i])
            /\ find_ret.kind \in {"running", "returned", "None", "raised"}
            /\ find_ret.kind = "returned" =>
                   /\ issued # <<>>
                   /\ issued[Len(issued)] = [kind |-> "ok", elems |-> find_ret.elems]
                   /\ Len(find_ret.elems) = 1
            /\ find_ret.kind = "None" <=>
                   /\ find_ret # NotReturned
                   /\ Len(issued) = find_call.max_retries
                   /\ \A i \in 1..Len(issued) : Retryable(issued[i])
            /\ find_ret.kind = "raised" =>
                   /\ issued # <<>>
                   /\ issued[Len(issued)].kind = "fault")
    /\ [][(FindingOne /\ find_ret # NotReturned) => issued' = issued]_vars

\* the default three lookups raised detached, not-found, detached: None
C32_Witness ==
    /\ FindingOne
    /\ find_call.max_retries = DefaultMaxRetries
    /\ Len(issued) = 3
    /\ issued[1].kind = "stale"
    /\ issued[2].kind = "nosuch"
    /\ issued[3].kind = "stale"
    /\ find_ret.kind = "None"

\* ---------------------------------------------------------------- C33

\* how often e occurs in the list s
Count(e, s) == Cardinality({i \in 1..Len(s) : s[i] = e})

\* what the branch b found: nothing when it failed
FoundBy(b) == IF futures[b].answer.kind = "ok" THEN futures[b].answer.elems ELSE <<>>

\* how often e occurs in what the branches 1..n found
RECURSIVE CountUpTo(_, _)
CountUpTo(e, n) == IF n = 0 THEN 0 ELSE Count(e, FoundBy(n)) + CountUpTo(e, n - 1)

\* what the branches named in order found, one after the other
RECURSIVE FoundInOrder(_)
FoundInOrder(order) ==
    IF order = <<>> THEN <<>> ELSE FoundBy(Head(order)) \o FoundInOrder(Tail(order))

\* a parallel_find_elements call
InParallel == ppc # "idle"

\* C33: parallel_find_elements never raises, whatever the branches do and in
\* whatever order they finish and are handed over: while it collects, and when
\* it has returned, results is what the branches handed over so far found,
\* one after the other in the order of the hand-over, a failed branch and an
\* empty list adding nothing; on return every branch was handed over exactly
\* once, so each element occurs in results as often as in the lists of all the
\* branches that succeeded, and results is empty when every branch failed.
C33_BranchFailuresSwallowed ==
    InParallel =>
        /\ ppc # "raised"
        /\ results = FoundInOrder(yielded)
        /\ \A i, j \in 1..Len(yielded) : yielded[i] = yielded[j] => i = j
        /\ ppc = "returned" =>
              /\ Range(yielded) = 1..retries
              /\ \A e \in Found : Count(e, results) = CountUpTo(e, retries)
              /\ (\A b \in 1..retries : futures[b].answer.kind = "fault") => results = <<>>

\* three lookups: the second failed, the third was handed over before the
\* first, and both found different lists
C33_Witness ==
    /\ ppc = "returned"
    /\ retries = 3
    /\ futures[2].answer.kind = "fault"
    /\ futures[1].answer = [kind |-> "ok", elems |-> <<"a">>]
    /\ futures[3].answer = [kind |-> "ok", elems |-> <<"b", "a">>]
    /\ yielded = <<3, 2, 1>>
    /\ results = <<"b", "a", "a">>

\* ---------------------------------------------------------------- C34

\* C34: at no moment of a parallel_find_elements call do more than 4 of its
\* lookups run at the same time, and when the call has returned all the
\* retries lookups it was asked for were submitted and every one of them has
\* finished, with a list or with an exception: none is queued or running.
C34_NoLookupOutlivesCall ==
    InParallel =>
        /\ MaxWorkers = 4
        /\ Cardinality(InState("running")) <= MaxWorkers
        /\ Len(futures) <= retries
        /\ ppc = "returned" =>
              /\ Len(futures) = retries
              /\ \A b \in 1..retries : futures[b].state = "done"

\* five lookups were submitted, one more than the pool has workers; two of
\* them failed, and the call has returned
C34_Witness ==
    /\ ppc = "returned"
    /\ retries = MaxWorkers + 1
    /\ Cardinality({b \in 1..retries : futures[b].answer.kind = "fault"}) = 2
    /\ \A b \in 1..retries : futures[b].state = "done"

\* ---------------------------------------------------------------- C35

\* login() raised, so InstaExtractor.__init__ raised and no extractor exists
LoginFailed == login_ret = "raised"

\* the collection call ended in this step, with a list or with an exception
CollectionEndsNow == pc # "done" /\ pc' = "done"

\* C35: the driver session is open from the construction of InstaLogin on and
\* only a call of quit() ends it. A step that changes it is a call of quit() on
\* an extractor whose collection call has ended, and changes nothing else;
\* after a failed login, an interstitial detection included, the session is
\* open (and stays so, no extractor being there to quit it); while login or a
\* collection call runs, and in the step that ends the collection call with
\* any outcome, the session is open.
C35_OnlyQuitTearsDown ==
    /\ [](/\ driver_session \in {"open", "quit"}
          /\ LoginFailed => driver_session = "open"
          /\ error.kind # "none" => driver_session = "open"
          /\ pc # "done" => driver_session = "open")
    /\ [][/\ CollectionEndsNow => driver_session' = "open"
          /\ driver_session' # driver_session =>
                /\ pc = "done"
                /\ login_ret = "True"
                /\ driver_session' = "quit"
                /\ UNCHANGED <<evars, lvars>>]_vars

\* the interstitial check raised inside the construction: the session is open
\* and nothing can run any more
C35_Witness ==
    /\ LoginFailed
    /\ error.kind = "MetaInterstitialError"
    /\ pc = "idle"
    /\ driver_session = "open"

====
